---- MODULE Spec2Model ----
(***************************************************************************)
(* EmberScript: the AST -> bytecode compiler (src/src/compiler.c), the     *)
(* stack virtual machine (src/src/virtual_machine.c) and the driver with    *)
(* its bytecode file format (src/main.c), as a state machine.               *)
(*                                                                         *)
(* Conventions.  C strings are sequences of one-character strings.  Code    *)
(* offsets, the instruction pointer and table indices are 0-based as in C;  *)
(* At(s, i) reads the element at C index i.  A double is an exact rational  *)
(* num/den in lowest terms (den > 0).                                       *)
(***************************************************************************)
EXTENDS Integers, Sequences, FiniteSets, TLC

(***************************************************************************)
(* Enumerations of the headers.                                            *)
(***************************************************************************)
OpCode ==
    [OP_NOOP |-> 0, OP_EOF |-> 1, OP_POP |-> 2, OP_DUP |-> 3, OP_SWAP |-> 4,
     OP_LOAD_CONST |-> 5, OP_LOAD_VAR |-> 6, OP_STORE_VAR |-> 7,
     OP_LOAD_GLOBAL |-> 8, OP_STORE_GLOBAL |-> 9, OP_LOAD_UPVALUE |-> 10,
     OP_STORE_UPVALUE |-> 11,
     OP_ADD |-> 12, OP_SUB |-> 13, OP_MUL |-> 14, OP_DIV |-> 15, OP_MOD |-> 16,
     OP_NEG |-> 17,
     OP_NOT |-> 18, OP_AND |-> 19, OP_OR |-> 20, OP_EQ |-> 21, OP_NEQ |-> 22,
     OP_LT |-> 23, OP_GT |-> 24, OP_LTE |-> 25, OP_GTE |-> 26,
     OP_JUMP |-> 27, OP_JUMP_IF_FALSE |-> 28, OP_JUMP_IF_TRUE |-> 29,
     OP_LOOP |-> 30,
     OP_CALL |-> 31, OP_RETURN |-> 32,
     OP_NEW_ARRAY |-> 33, OP_ARRAY_PUSH |-> 34, OP_GET_INDEX |-> 35,
     OP_SET_INDEX |-> 36, OP_NEW_OBJECT |-> 37, OP_SET_PROPERTY |-> 38,
     OP_GET_PROPERTY |-> 39,
     OP_PRINT |-> 40, OP_TO_STRING |-> 41,
     OP_YIELD |-> 42, OP_RESUME |-> 43, OP_THROW |-> 44, OP_TRY_CATCH |-> 45]

RuntimeValueType ==
    [RUNTIME_VALUE_NUMBER |-> 0, RUNTIME_VALUE_STRING |-> 1,
     RUNTIME_VALUE_BOOLEAN |-> 2, RUNTIME_VALUE_NULL |-> 3,
     RUNTIME_VALUE_ARRAY |-> 4, RUNTIME_VALUE_OBJECT |-> 5,
     RUNTIME_VALUE_FUNCTION |-> 6]

(***************************************************************************)
(* Helpers for C arrays and integers.                                      *)
(***************************************************************************)
At(s, i) == s[i + 1]

SetAt(s, i, v) == [s EXCEPT ![i + 1] = v]

Pow2(n) == IF n = 8 THEN 256 ELSE IF n = 16 THEN 65536 ELSE 2 ^ n

\* (uint8_t)x for an int x >= 0
U8(x) == x % Pow2(8)

RECURSIVE GCD(_, _)
GCD(a, b) == IF b = 0 THEN a ELSE GCD(b, a % b)

Abs(x) == IF x < 0 THEN -x ELSE x

(***************************************************************************)
(* RuntimeValue (include/runtime.h): a tag and the payload of that tag.    *)
(***************************************************************************)
Rat(n, d) ==
    LET g == GCD(Abs(n), Abs(d))
        s == IF d < 0 THEN -1 ELSE 1
    IN  [type |-> "RUNTIME_VALUE_NUMBER", num |-> (s * n) \div g, den |-> (s * d) \div g]

NumberValue(n) == [type |-> "RUNTIME_VALUE_NUMBER", num |-> n, den |-> 1]

StringValue(s) == [type |-> "RUNTIME_VALUE_STRING", string_value |-> s]

BooleanValue(b) == [type |-> "RUNTIME_VALUE_BOOLEAN", boolean_value |-> b]

NullValue == [type |-> "RUNTIME_VALUE_NULL"]

\* array_value: the elements and count, and the identity of the buffer the
\* elements pointer designates (0 for NULL)
ArrayValue(elems) == [type |-> "RUNTIME_VALUE_ARRAY", elements |-> elems, buffer |-> 0]


(***************************************************************************)
(* AST nodes (include/parser.h).  A NULL child is NullNode.                *)
(***************************************************************************)
NullNode == [type |-> "NULL"]

Literal(tt, lexeme) == [type |-> "AST_LITERAL", token_type |-> tt, value |-> lexeme]

Variable(name) == [type |-> "AST_VARIABLE", variable_name |-> name]

UnaryOp(op, e) == [type |-> "AST_UNARY_OP", op_symbol |-> op, operand |-> e]

BinaryOp(op, l, r) == [type |-> "AST_BINARY_OP", op_symbol |-> op, left |-> l, right |-> r]

Assignment(name, e) == [type |-> "AST_ASSIGNMENT", variable |-> name, value |-> e]

VariableDecl(name, e) == [type |-> "AST_VARIABLE_DECL", variable_name |-> name, initial_value |-> e]

FunctionCall(name, args) == [type |-> "AST_FUNCTION_CALL", function_name |-> name, arguments |-> args]

ArrayLiteral(elems) == [type |-> "AST_ARRAY_LITERAL", elements |-> elems]

IndexAccess(a, i) == [type |-> "AST_INDEX_ACCESS", array_expr |-> a, index_expr |-> i]

IfStatement(c, b, e) == [type |-> "AST_IF_STATEMENT", condition |-> c, body |-> b, else_body |-> e]

WhileLoop(c, b) == [type |-> "AST_WHILE_LOOP", condition |-> c, body |-> b]

ForLoop(i, c, n, b) ==
    [type |-> "AST_FOR_LOOP", initializer |-> i, condition |-> c, increment |-> n, body |-> b]

FunctionDef(name, params, b) ==
    [type |-> "AST_FUNCTION_DEF", function_name |-> name, parameters |-> params, body |-> b]

Block(stmts) == [type |-> "AST_BLOCK", statements |-> stmts]

SwitchCase(c, cases, d) ==
    [type |-> "AST_SWITCH_CASE", condition |-> c, cases |-> cases, default_case |-> d]

\* the node compile_statement reads as node->import_stmt.import_path
Import(path) == [type |-> "AST_IMPORT", import_path |-> path]

(***************************************************************************)
(* atof on a number lexeme: the longest prefix digits [ '.' digits ].      *)
(***************************************************************************)
Digits == <<"0", "1", "2", "3", "4", "5", "6", "7", "8", "9">>

IsDigit(ch) == \E d \in 1..10 : Digits[d] = ch

DigitVal(ch) == (CHOOSE d \in 1..10 : Digits[d] = ch) - 1

\* st = [num, den, dot]: the digits read so far as num/den; dot = a '.' was read
RECURSIVE atof_scan(_, _, _)
atof_scan(s, i, st) ==
    IF i > Len(s) THEN st
    ELSE IF IsDigit(s[i])
         THEN atof_scan(s, i + 1,
                        [st EXCEPT !.num = 10 * @ + DigitVal(s[i]),
                                   !.den = IF st.dot THEN 10 * @ ELSE @])
         ELSE IF s[i] = "." /\ ~st.dot
              THEN atof_scan(s, i + 1, [st EXCEPT !.dot = TRUE])
              ELSE st

atof(s) ==
    LET r == atof_scan(s, 1, [num |-> 0, den |-> 1, dot |-> FALSE])
    IN  Rat(r.num, r.den)

(***************************************************************************)
(* The lexer (lexer.c).  A source is the sequence of its characters; the   *)
(* terminating '\0' is NUL, read at and after the end.  A Lexer is         *)
(* [source, position, line, column]; current_char is source[position].     *)
(* A Token is [type, value, line, column]; a NULL value is NoValue.        *)
(***************************************************************************)
NUL == "NUL"

NoValue == <<NUL>>

Lower ==
    {"a", "b", "c", "d", "e", "f", "g", "h", "i", "j", "k", "l", "m",
     "n", "o", "p", "q", "r", "s", "t", "u", "v", "w", "x", "y", "z"}

Upper ==
    {"A", "B", "C", "D", "E", "F", "G", "H", "I", "J", "K", "L", "M",
     "N", "O", "P", "Q", "R", "S", "T", "U", "V", "W", "X", "Y", "Z"}

isalpha(ch) == ch \in Lower \cup Upper

isalnum(ch) == isalpha(ch) \/ IsDigit(ch)

lexer_init(source) == [source |-> source, position |-> 0, line |-> 1, column |-> 1]

current_char(lexer) ==
    IF lexer.position < Len(lexer.source) THEN At(lexer.source, lexer.position) ELSE NUL

lexer_advance(lexer) ==
    [lexer EXCEPT !.line     = IF current_char(lexer) = "\n" THEN @ + 1 ELSE @,
                  !.column   = IF current_char(lexer) = "\n" THEN 1 ELSE @ + 1,
                  !.position = @ + 1]

lexer_peek(lexer) ==
    IF lexer.position + 1 < Len(lexer.source)
    THEN At(lexer.source, lexer.position + 1)
    ELSE NUL

\* while (current_char != '\n' && current_char != '\0') lexer_advance
RECURSIVE skip_line_comment(_)
skip_line_comment(lexer) ==
    IF current_char(lexer) \notin {"\n", NUL}
    THEN skip_line_comment(lexer_advance(lexer))
    ELSE lexer

\* a comment loop that does not test for the terminating NUL: it runs over it
skip_block_comment_over_nul(lexer) == [lexer EXCEPT !.position = Len(lexer.source) + 1]

\* while (!(current_char == '*' && peek == '/') && current_char != '\0') lexer_advance
RECURSIVE skip_block_comment(_)
skip_block_comment(lexer) ==
    IF ~(current_char(lexer) = "*" /\ lexer_peek(lexer) = "/") /\ current_char(lexer) # NUL
    THEN skip_block_comment(lexer_advance(lexer))
    ELSE lexer

\* the skipping of whitespace alone (lexer.h: lexer_skip_whitespace)
RECURSIVE lexer_skip_whitespace(_)
lexer_skip_whitespace(lexer) ==
    IF current_char(lexer) \in {" ", "\t", "\n", "\r"}
    THEN lexer_skip_whitespace(lexer_advance(lexer))
    ELSE lexer

RECURSIVE lexer_skip_whitespace_and_comments(_)
lexer_skip_whitespace_and_comments(lexer) ==
    LET c == current_char(lexer)
    IN  IF c = NUL THEN lexer
        ELSE IF c \in {" ", "\t", "\n", "\r"}
        THEN lexer_skip_whitespace_and_comments(lexer_advance(lexer))
        ELSE IF c = "/" /\ lexer_peek(lexer) = "/"
        THEN lexer_skip_whitespace_and_comments(skip_line_comment(lexer))
        ELSE IF c = "/" /\ lexer_peek(lexer) = "*"
        THEN LET body == skip_block_comment(lexer_advance(lexer_advance(lexer)))
             IN  lexer_skip_whitespace_and_comments(
                     IF current_char(body) # NUL
                     THEN lexer_advance(lexer_advance(body))
                     ELSE body)
        ELSE lexer

\* the lexer after the longest run of alphanumerics and underscores
RECURSIVE skip_identifier(_)
skip_identifier(lexer) ==
    IF isalnum(current_char(lexer)) \/ current_char(lexer) = "_"
    THEN skip_identifier(lexer_advance(lexer))
    ELSE lexer

\* the lexer after the longest run of digits and dots
RECURSIVE skip_number(_)
skip_number(lexer) ==
    IF IsDigit(current_char(lexer)) \/ current_char(lexer) = "."
    THEN skip_number(lexer_advance(lexer))
    ELSE lexer

\* source[start .. position - 1]
Lexeme(lexer, start) == SubSeq(lexer.source, start + 1, lexer.position)

keywords ==
    {<<"i", "f">>, <<"e", "l", "s", "e">>, <<"w", "h", "i", "l", "e">>, <<"f", "o", "r">>,
     <<"r", "e", "t", "u", "r", "n">>, <<"b", "r", "e", "a", "k">>,
     <<"c", "o", "n", "t", "i", "n", "u", "e">>,
     <<"f", "u", "n", "c", "t", "i", "o", "n">>, <<"v", "a", "r">>,
     <<"c", "o", "n", "s", "t">>, <<"l", "e", "t">>, <<"t", "r", "u", "e">>,
     <<"f", "a", "l", "s", "e">>, <<"n", "u", "l", "l">>}

is_keyword(identifier) == identifier \in keywords

Token(type, value, lexer) ==
    [type |-> type, value |-> value, line |-> lexer.line, column |-> lexer.column]

\* the classification of an identifier with the keyword list asked first
identifier_type_keyword_first(identifier) ==
    IF is_keyword(identifier) THEN "TOKEN_KEYWORD"
    ELSE IF identifier \in {<<"t", "r", "u", "e">>, <<"f", "a", "l", "s", "e">>}
    THEN "TOKEN_BOOLEAN"
    ELSE IF identifier = <<"n", "u", "l", "l">> THEN "TOKEN_NULL"
    ELSE "TOKEN_IDENTIFIER"

\* the strcmp chain of lexer_next_token on an identifier
identifier_type(identifier) ==
    IF identifier \in {<<"t", "r", "u", "e">>, <<"f", "a", "l", "s", "e">>}
    THEN "TOKEN_BOOLEAN"
    ELSE IF identifier = <<"n", "u", "l", "l">> THEN "TOKEN_NULL"
    ELSE IF is_keyword(identifier) THEN "TOKEN_KEYWORD"
    ELSE "TOKEN_IDENTIFIER"

\* the escapes with the character after the backslash taken as it is
escape_verbatim(c) == c

\* the switch on the character after a backslash; NUL for the default case
escape(c) ==
    CASE c = "n"  -> "\n"
      [] c = "t"  -> "\t"
      [] c = "\\" -> "\\"
      [] c = "\"" -> "\""
      [] OTHER    -> NUL

\* the while loop of a string literal, from the character after the opening
\* quote: [lexer, string, error], error = the invalid-escape return was taken
RECURSIVE read_string(_, _)
read_string(lexer, string) ==
    LET c == current_char(lexer)
    IN  IF c = "\"" \/ c = NUL
        THEN [lexer |-> lexer, string |-> string, error |-> FALSE]
        ELSE IF c = "\\"
        THEN LET after == lexer_advance(lexer)
                 e     == IF current_char(after) = NUL THEN NUL
                          ELSE escape(current_char(after))
             IN  IF e = NUL
                 THEN [lexer |-> after, string |-> string, error |-> TRUE]
                 ELSE read_string(lexer_advance(after), Append(string, e))
        ELSE read_string(lexer_advance(lexer), Append(string, c))

\* returns [lexer, token]
lexer_next_token(lexer0) ==
    LET lexer == lexer_skip_whitespace_and_comments(lexer0)
        c     == current_char(lexer)
        next  == lexer_advance(lexer)
        result(after, type, value) ==
            [lexer |-> after, token |-> Token(type, value, after)]
    IN  IF c = NUL THEN result(lexer, "TOKEN_EOF", NoValue)
        ELSE IF isalpha(c) \/ c = "_"
        THEN LET after == skip_identifier(lexer)
                 identifier == Lexeme(after, lexer.position)
             IN  result(after, identifier_type(identifier), identifier)
        ELSE IF IsDigit(c)
        THEN LET after == skip_number(lexer)
             IN  result(after, "TOKEN_NUMBER", Lexeme(after, lexer.position))
        ELSE IF c = "\""
        THEN LET r == read_string(next, << >>)
             IN  IF r.error \/ current_char(r.lexer) = NUL
                 THEN result(r.lexer, "TOKEN_ERROR", NoValue)
                 ELSE result(lexer_advance(r.lexer), "TOKEN_STRING", r.string)
        ELSE IF c \in {"=", "!", "<", ">", "&", "|"}
        THEN IF current_char(next) = "="
             THEN result(lexer_advance(next), "TOKEN_OPERATOR", <<c, "=">>)
             ELSE IF c \in {"&", "|"} /\ current_char(next) = c
             THEN result(lexer_advance(next), "TOKEN_OPERATOR", <<c, c>>)
             ELSE result(next, "TOKEN_OPERATOR", <<c>>)
        ELSE IF c \in {"+", "-", "*", "/", "%"}
        THEN result(next, "TOKEN_OPERATOR", <<c>>)
        ELSE IF c \in {"(", ")", "{", "}", "[", "]", ",", ";", "."}
        THEN result(next, "TOKEN_PUNCTUATION", <<c>>)
        ELSE result(next, "TOKEN_ERROR", NoValue)

(***************************************************************************)
(* Parser (parser.c).  A Parser is [ahead, current_token, errors]: the     *)
(* tokens its Lexer has yet to return, the token it looks at, and the      *)
(* diagnostics written so far (report_error and the fprintf(stderr)        *)
(* calls).  The Lexer is deterministic and only parser_advance moves it    *)
(* (peek_token reads a copy), so its k-th call returns the k-th token of   *)
(* lexer_tokens; the Parser holds that sequence.  A parse function         *)
(* returns [p, node]: the Parser afterwards and the node, NullNode for     *)
(* NULL.  Allocation is taken to succeed.                                  *)
(***************************************************************************)
\* the text of an operator lexeme, as the op_symbol of a node
OperatorSymbol(lexeme) ==
    CASE lexeme = <<"+">> -> "+"
      [] lexeme = <<"-">> -> "-"
      [] lexeme = <<"*">> -> "*"
      [] lexeme = <<"/">> -> "/"
      [] lexeme = <<"%">> -> "%"
      [] lexeme = <<"=", "=">> -> "=="
      [] lexeme = <<"!", "=">> -> "!="
      [] lexeme = <<"<">> -> "<"
      [] lexeme = <<">">> -> ">"
      [] lexeme = <<"<", "=">> -> "<="
      [] lexeme = <<">", "=">> -> ">="
      [] lexeme = <<"&", "&">> -> "&&"
      [] lexeme = <<"|", "|">> -> "||"
      [] lexeme = <<"!">> -> "!"
      [] lexeme = <<"=">> -> "="
      [] OTHER -> "?"

\* precedence_table; -1 for an operator that is not in it
get_operator_precedence(op_symbol) ==
    CASE op_symbol = <<"|", "|">> -> 1
      [] op_symbol = <<"&", "&">> -> 2
      [] op_symbol \in {<<"=", "=">>, <<"!", "=">>} -> 3
      [] op_symbol \in {<<"<">>, <<"<", "=">>, <<">">>, <<">", "=">>} -> 4
      [] op_symbol \in {<<"+">>, <<"-">>} -> 5
      [] op_symbol \in {<<"*">>, <<"/">>, <<"%">>} -> 6
      [] OTHER -> 0 - 1

report_error(p, message) == [p EXCEPT !.errors = Append(@, message)]

\* fprintf(stderr, ...)
Stderr(p, message) == [p EXCEPT !.errors = Append(@, message)]

\* the value r handed to the rest of the function, K: a local variable of
\* the C function that is assigned once and read by what follows
Then(r, K(_)) == K(r)

\* the tokens that the calls of lexer_next_token return from this state of
\* the lexer on, in order, up to the first TOKEN_EOF
RECURSIVE lexer_tokens(_)
lexer_tokens(lexer) ==
    Then(lexer_next_token(lexer), LAMBDA r :
        IF r.token.type = "TOKEN_EOF" THEN <<r.token>>
        ELSE <<r.token>> \o lexer_tokens(r.lexer))

\* current_token = lexer_next_token(parser->lexer): the first token ahead;
\* after TOKEN_EOF the lexer returns TOKEN_EOF again
parser_advance(p) ==
    [p EXCEPT !.current_token = Head(p.ahead),
              !.ahead = IF Len(p.ahead) > 1 THEN Tail(p.ahead) ELSE p.ahead]

\* the next token of a copy of the lexer
peek_token(p) == Head(p.ahead)

parser_create(lexer) ==
    parser_advance([ahead |-> lexer_tokens(lexer),
                    current_token |-> Token("TOKEN_EOF", NoValue, lexer),
                    errors |-> << >>])

\* current_token.type == type && strcmp(current_token.value, value) == 0
TokenIs(p, type, value) == p.current_token.type = type /\ p.current_token.value = value

Punct(p, c) == TokenIs(p, "TOKEN_PUNCTUATION", <<c>>)

\* returns [ok, p]
match_token(p, type, value) ==
    IF TokenIs(p, type, value) THEN [ok |-> TRUE, p |-> parser_advance(p)]
    ELSE [ok |-> FALSE, p |-> p]

\* return NULL
Fail(p) == [p |-> p, node |-> NullNode]

Parsed(p, node) == [p |-> p, node |-> node]

RECURSIVE parser_recover(_)
parser_recover(p) ==
    IF p.current_token.type = "TOKEN_EOF" THEN p
    ELSE IF Punct(p, ";") \/ Punct(p, "}") THEN parser_advance(p)
    ELSE parser_recover(parser_advance(p))

RECURSIVE parse_factor(_)
RECURSIVE parse_expression(_, _)
RECURSIVE expression_operators(_, _, _)
RECURSIVE array_elements(_, _)
RECURSIVE call_arguments(_, _)
RECURSIVE index_accesses(_, _)
RECURSIVE parse_statement(_)
RECURSIVE block_statements(_, _)
RECURSIVE parse_block(_)
RECURSIVE parse_if_statement(_)

\* the while loop of an array literal, from the token after '[':
\* [p, elements, ok], ok = no element failed to parse
array_elements(p, elements) ==
    IF Punct(p, "]") THEN [p |-> p, elements |-> elements, ok |-> TRUE]
    ELSE Then(parse_expression(p, 0), LAMBDA element :
             IF element.node = NullNode
             THEN [p |-> element.p, elements |-> elements, ok |-> FALSE]
             ELSE IF Punct(element.p, ",")
             THEN array_elements(parser_advance(element.p), Append(elements, element.node))
             ELSE [p |-> element.p, elements |-> Append(elements, element.node), ok |-> TRUE])

\* the do-while loop of the arguments of a call: [p, arguments, ok]
call_arguments(p, arguments) ==
    Then(parse_expression(p, 0), LAMBDA arg :
        IF arg.node = NullNode
        THEN [p |-> report_error(arg.p, "Failed to parse function argument"),
              arguments |-> arguments, ok |-> FALSE]
        ELSE IF Punct(arg.p, ",")
        THEN call_arguments(parser_advance(arg.p), Append(arguments, arg.node))
        ELSE [p |-> arg.p, arguments |-> Append(arguments, arg.node), ok |-> TRUE])

\* the while loop of index accesses after a factor
index_accesses(p, factor_node) ==
    IF ~Punct(p, "[") THEN Parsed(p, factor_node)
    ELSE Then(parse_expression(parser_advance(p), 0), LAMBDA index_expr :
             IF index_expr.node = NullNode THEN Fail(index_expr.p)
             ELSE IF ~Punct(index_expr.p, "]")
             THEN Fail(report_error(index_expr.p, "Expected ']' after array index expression"))
             ELSE index_accesses(parser_advance(index_expr.p),
                                 IndexAccess(factor_node, index_expr.node)))

parse_factor(p) ==
    LET t == p.current_token
    IN  Then(IF t.type = "TOKEN_OPERATOR" /\ t.value \in {<<"-">>, <<"!">>}
             THEN Then(parse_factor(parser_advance(p)), LAMBDA operand :
                     IF operand.node = NullNode
                     THEN Fail(report_error(operand.p,
                                            "Failed to parse operand for unary operation"))
                     ELSE Parsed(operand.p, UnaryOp(OperatorSymbol(t.value), operand.node)))
             ELSE IF t.type \in {"TOKEN_NUMBER", "TOKEN_STRING", "TOKEN_BOOLEAN", "TOKEN_NULL"}
             THEN Parsed(parser_advance(p), Literal(t.type, t.value))
             ELSE IF Punct(p, "(")
             THEN Then(parse_expression(parser_advance(p), 0), LAMBDA expr :
                     IF expr.node = NullNode
                     THEN Fail(report_error(expr.p, "Failed to parse sub-expression"))
                     ELSE IF ~Punct(expr.p, ")")
                     THEN Fail(report_error(expr.p, "Expected closing parenthesis"))
                     ELSE Parsed(parser_advance(expr.p), expr.node))
             ELSE IF Punct(p, "[")
             THEN Then(array_elements(parser_advance(p), << >>), LAMBDA r :
                     IF ~r.ok THEN Fail(r.p)
                     ELSE IF ~Punct(r.p, "]")
                     THEN Fail(report_error(r.p, "Expected ']' at the end of array literal"))
                     ELSE Parsed(parser_advance(r.p), ArrayLiteral(r.elements)))
             ELSE IF t.type = "TOKEN_IDENTIFIER"
             THEN Then(parser_advance(p), LAMBDA after :
                     IF Punct(after, "(")
                     THEN Then(parser_advance(after), LAMBDA open :
                              IF Punct(open, ")")
                              THEN Parsed(parser_advance(open), FunctionCall(t.value, << >>))
                              ELSE Then(call_arguments(open, << >>), LAMBDA r :
                                   Then(match_token(r.p, "TOKEN_PUNCTUATION", <<")">>),
                                        LAMBDA close :
                                       IF ~r.ok THEN Fail(r.p)
                                       ELSE IF ~close.ok
                                       THEN Fail(report_error(close.p,
                                                "Expected ')' after function arguments"))
                                       ELSE Parsed(close.p,
                                                   FunctionCall(t.value, r.arguments)))))
                     ELSE Parsed(after, Variable(t.value)))
             ELSE Fail(report_error(p, "Unexpected token")),
             LAMBDA factor :
                 IF factor.node = NullNode THEN factor
                 ELSE index_accesses(factor.p, factor.node))

\* the while (true) loop of parse_expression
expression_operators(p, left, min_precedence) ==
    IF TokenIs(p, "TOKEN_OPERATOR", <<"=">>)
    THEN Then(parse_expression(parser_advance(p), 0), LAMBDA right :
             IF right.node = NullNode
             THEN Fail(Stderr(right.p, "Error: Failed to parse right-hand side of assignment"))
             ELSE IF left.type # "AST_VARIABLE"
             THEN Fail(report_error(right.p, "Left-hand side of '=' must be a variable"))
             ELSE expression_operators(right.p, Assignment(left.variable_name, right.node),
                                       min_precedence))
    ELSE IF p.current_token.type = "TOKEN_OPERATOR"
    THEN LET op         == p.current_token.value
             precedence == get_operator_precedence(op)
         IN  IF precedence < min_precedence THEN Parsed(p, left)
             ELSE Then(parse_expression(parser_advance(p), precedence + 1), LAMBDA right :
                      IF right.node = NullNode
                      THEN Fail(Stderr(right.p,
                                  "Error: Failed to parse right-hand side of expression"))
                      ELSE expression_operators(right.p,
                               BinaryOp(OperatorSymbol(op), left, right.node), min_precedence))
    ELSE Parsed(p, left)

parse_expression(p, min_precedence) ==
    Then(parse_factor(p), LAMBDA left :
        IF left.node = NullNode
        THEN Fail(Stderr(left.p, "Error: Failed to parse left-hand side of expression"))
        ELSE expression_operators(left.p, left.node, min_precedence))

parse_assignment(p) ==
    IF p.current_token.type # "TOKEN_IDENTIFIER"
    THEN Fail(Stderr(p, "Error: Expected an identifier for assignment"))
    ELSE LET variable_name == p.current_token.value
         IN  Then(parser_advance(p), LAMBDA after :
             IF ~TokenIs(after, "TOKEN_OPERATOR", <<"=">>)
             THEN Fail(report_error(after, "Expected '=' in assignment statement"))
             ELSE Then(parse_expression(parser_advance(after), 0), LAMBDA value_node :
                  Then(match_token(value_node.p, "TOKEN_PUNCTUATION", <<";">>),
                       LAMBDA semicolon :
                      IF value_node.node = NullNode
                      THEN Fail(Stderr(value_node.p,
                                  "Error: Failed to parse right-hand side of assignment"))
                      ELSE IF ~semicolon.ok
                      THEN Fail(report_error(semicolon.p, "Expected ';' after assignment"))
                      ELSE Parsed(semicolon.p, Assignment(variable_name, value_node.node)))))

DeclarationKeywords == {<<"v", "a", "r">>, <<"l", "e", "t">>, <<"c", "o", "n", "s", "t">>}

parse_variable_declaration(p, inForHeader) ==
    IF p.current_token.type # "TOKEN_KEYWORD" \/ p.current_token.value \notin DeclarationKeywords
    THEN Fail(Stderr(p, "Error: Expected a variable declaration keyword (e.g., var, let, const)"))
    ELSE Then(parser_advance(p), LAMBDA name :
             IF name.current_token.type # "TOKEN_IDENTIFIER"
             THEN Fail(Stderr(name, "Error: Expected an identifier for variable declaration"))
             ELSE LET variable_name == name.current_token.value
                  IN  Then(parser_advance(name), LAMBDA after :
                      Then(IF TokenIs(after, "TOKEN_OPERATOR", <<"=">>)
                           THEN parse_expression(parser_advance(after), 0)
                           ELSE Parsed(after, NullNode), LAMBDA init :
                      Then(match_token(init.p, "TOKEN_PUNCTUATION", <<";">>),
                           LAMBDA semicolon :
                      IF TokenIs(after, "TOKEN_OPERATOR", <<"=">>) /\ init.node = NullNode
                      THEN Fail(Stderr(init.p,
                              "Error: Failed to parse initializer for variable declaration"))
                      ELSE IF inForHeader
                      THEN Parsed(init.p, VariableDecl(variable_name, init.node))
                      ELSE IF ~semicolon.ok
                      THEN Fail(report_error(semicolon.p,
                                             "Expected ';' after variable declaration"))
                      ELSE Parsed(semicolon.p, VariableDecl(variable_name, init.node))))))

\* the while loop of parse_block: [p, statements, ok]
block_statements(p, statements) ==
    IF Punct(p, "}") THEN [p |-> p, statements |-> statements, ok |-> TRUE]
    ELSE Then(parse_statement(p), LAMBDA statement :
             IF statement.node = NullNode
             THEN [p |-> statement.p, statements |-> statements, ok |-> FALSE]
             ELSE block_statements(statement.p, Append(statements, statement.node)))

parse_block(p) ==
    Then(match_token(p, "TOKEN_PUNCTUATION", <<"{">>), LAMBDA open :
        IF ~open.ok THEN Fail(report_error(open.p, "Expected '{' to start block"))
        ELSE Then(block_statements(open.p, << >>), LAMBDA r :
             Then(match_token(r.p, "TOKEN_PUNCTUATION", <<"}">>), LAMBDA close :
                 IF ~r.ok THEN Fail(r.p)
                 ELSE IF ~close.ok
                 THEN Fail(report_error(close.p, "Expected '}' to close block"))
                 ELSE Parsed(close.p, Block(r.statements)))))

\* the while loop of the parameter list: [p, parameters, ok]
RECURSIVE function_parameters(_, _)
function_parameters(p, parameters) ==
    IF Punct(p, ")") THEN [p |-> p, parameters |-> parameters, ok |-> TRUE]
    ELSE IF p.current_token.type # "TOKEN_IDENTIFIER"
    THEN [p |-> report_error(p, "Expected parameter name"),
          parameters |-> parameters, ok |-> FALSE]
    ELSE LET more == Append(parameters, p.current_token.value)
         IN  Then(parser_advance(p), LAMBDA after :
             IF Punct(after, ",") THEN function_parameters(parser_advance(after), more)
             ELSE IF Punct(after, ")") THEN [p |-> after, parameters |-> more, ok |-> TRUE]
             ELSE [p |-> report_error(after, "Expected ',' or ')' in parameter list"),
                   parameters |-> more, ok |-> FALSE])

parse_function_definition(p) ==
    Then(match_token(p, "TOKEN_KEYWORD", <<"f", "u", "n", "c", "t", "i", "o", "n">>),
         LAMBDA keyword :
        IF ~keyword.ok THEN Fail(report_error(keyword.p, "Expected 'function' keyword"))
        ELSE IF keyword.p.current_token.type # "TOKEN_IDENTIFIER"
        THEN Fail(report_error(keyword.p, "Expected function name after 'function'"))
        ELSE LET function_name == keyword.p.current_token.value
             IN  Then(match_token(parser_advance(keyword.p), "TOKEN_PUNCTUATION", <<"(">>),
                      LAMBDA open :
                 Then(function_parameters(open.p, << >>), LAMBDA params :
                 Then(match_token(params.p, "TOKEN_PUNCTUATION", <<")">>), LAMBDA close :
                 Then(parse_block(close.p), LAMBDA body :
                 IF ~open.ok
                 THEN Fail(report_error(open.p, "Expected '(' after function name"))
                 ELSE IF ~params.ok THEN Fail(params.p)
                 ELSE IF ~close.ok
                 THEN Fail(report_error(close.p, "Expected ')' after parameters"))
                 ELSE IF body.node = NullNode
                 THEN Fail(report_error(body.p, "Failed to parse function body"))
                 ELSE Parsed(body.p,
                             FunctionDef(function_name, params.parameters, body.node)))))))

parse_if_statement(p) ==
    Then(match_token(p, "TOKEN_KEYWORD", <<"i", "f">>), LAMBDA keyword :
    Then(match_token(keyword.p, "TOKEN_PUNCTUATION", <<"(">>), LAMBDA open :
    Then(parse_expression(open.p, 0), LAMBDA condition :
    Then(match_token(condition.p, "TOKEN_PUNCTUATION", <<")">>), LAMBDA close :
    Then(parse_block(close.p), LAMBDA body :
    Then(match_token(body.p, "TOKEN_KEYWORD", <<"e", "l", "s", "e">>), LAMBDA else :
    Then(IF TokenIs(else.p, "TOKEN_KEYWORD", <<"i", "f">>)
         THEN parse_if_statement(else.p)
         ELSE parse_block(else.p), LAMBDA else_body :
        IF ~keyword.ok THEN Fail(Stderr(keyword.p, "Error: Expected 'if' keyword"))
        ELSE IF ~open.ok THEN Fail(report_error(open.p, "Expected '(' after 'if'"))
        ELSE IF condition.node = NullNode
        THEN Fail(Stderr(condition.p, "Error: Failed to parse condition in 'if' statement"))
        ELSE IF ~close.ok
        THEN Fail(report_error(close.p, "Expected ')' after condition in 'if' statement"))
        ELSE IF body.node = NullNode
        THEN Fail(Stderr(body.p, "Error: Failed to parse body of 'if' statement"))
        ELSE IF ~else.ok THEN Parsed(else.p, IfStatement(condition.node, body.node, NullNode))
        ELSE IF else_body.node = NullNode
        THEN Fail(Stderr(else_body.p,
                         IF TokenIs(else.p, "TOKEN_KEYWORD", <<"i", "f">>)
                         THEN "Error: Failed to parse 'else if' statement"
                         ELSE "Error: Failed to parse 'else' body"))
        ELSE Parsed(else_body.p,
                    IfStatement(condition.node, body.node, else_body.node)))))))))

parse_while_loop(p) ==
    Then(match_token(p, "TOKEN_KEYWORD", <<"w", "h", "i", "l", "e">>), LAMBDA keyword :
    Then(match_token(keyword.p, "TOKEN_PUNCTUATION", <<"(">>), LAMBDA open :
    Then(parse_expression(open.p, 0), LAMBDA condition :
    Then(match_token(condition.p, "TOKEN_PUNCTUATION", <<")">>), LAMBDA close :
    Then(parse_block(close.p), LAMBDA body :
        IF ~keyword.ok THEN Fail(Stderr(keyword.p, "Error: Expected 'while' keyword"))
        ELSE IF ~open.ok THEN Fail(report_error(open.p, "Expected '(' after 'while'"))
        ELSE IF condition.node = NullNode
        THEN Fail(Stderr(condition.p, "Error: Failed to parse condition in 'while' loop"))
        ELSE IF ~close.ok
        THEN Fail(report_error(close.p, "Expected ')' after condition in 'while' loop"))
        ELSE IF body.node = NullNode
        THEN Fail(Stderr(body.p, "Error: Failed to parse body of 'while' loop"))
        ELSE Parsed(body.p, WhileLoop(condition.node, body.node)))))))

parse_for_loop(p) ==
    Then(match_token(p, "TOKEN_KEYWORD", <<"f", "o", "r">>), LAMBDA keyword :
    Then(match_token(keyword.p, "TOKEN_PUNCTUATION", <<"(">>), LAMBDA open :
    Then(IF Punct(open.p, ";") THEN Parsed(open.p, NullNode)
         ELSE IF /\ open.p.current_token.type = "TOKEN_KEYWORD"
                 /\ open.p.current_token.value \in DeclarationKeywords
         THEN parse_variable_declaration(open.p, TRUE)
         ELSE parse_expression(open.p, 0), LAMBDA initializer :
    Then(match_token(initializer.p, "TOKEN_PUNCTUATION", <<";">>), LAMBDA first :
    Then(IF Punct(first.p, ";") THEN Parsed(first.p, NullNode)
         ELSE parse_expression(first.p, 0), LAMBDA condition :
    Then(match_token(condition.p, "TOKEN_PUNCTUATION", <<";">>), LAMBDA second :
    Then(IF Punct(second.p, ")") THEN Parsed(second.p, NullNode)
         ELSE parse_expression(second.p, 0), LAMBDA increment :
    Then(match_token(increment.p, "TOKEN_PUNCTUATION", <<")">>), LAMBDA close :
    Then(parse_block(close.p), LAMBDA body :
        IF ~keyword.ok THEN Fail(Stderr(keyword.p, "Error: Expected 'for' keyword"))
        ELSE IF ~open.ok THEN Fail(report_error(open.p, "Expected '(' after 'for'"))
        ELSE IF ~first.ok
        THEN Fail(report_error(first.p, "Expected ';' after initializer in 'for' loop"))
        ELSE IF ~Punct(first.p, ";") /\ condition.node = NullNode
        THEN Fail(Stderr(condition.p, "Error: Failed to parse condition in 'for' loop"))
        ELSE IF ~second.ok
        THEN Fail(report_error(second.p, "Expected ';' after condition in 'for' loop"))
        ELSE IF ~Punct(second.p, ")") /\ increment.node = NullNode
        THEN Fail(Stderr(increment.p, "Error: Failed to parse increment in 'for' loop"))
        ELSE IF ~close.ok
        THEN Fail(report_error(close.p, "Expected ')' after increment in 'for' loop"))
        ELSE IF body.node = NullNode
        THEN Fail(Stderr(body.p, "Error: Failed to parse body of 'for' loop"))
        ELSE Parsed(body.p, ForLoop(initializer.node, condition.node, increment.node,
                                    body.node)))))))))))

parse_statement(p) ==
    LET t == p.current_token
        keyword(word) == t.type = "TOKEN_KEYWORD" /\ t.value = word
    IN  IF keyword(<<"i", "f">>) THEN parse_if_statement(p)
        ELSE IF keyword(<<"w", "h", "i", "l", "e">>) THEN parse_while_loop(p)
        ELSE IF keyword(<<"f", "o", "r">>) THEN parse_for_loop(p)
        ELSE IF keyword(<<"f", "u", "n", "c", "t", "i", "o", "n">>)
        THEN parse_function_definition(p)
        ELSE IF Punct(p, "{") THEN parse_block(p)
        ELSE IF keyword(<<"v", "a", "r">>) THEN parse_variable_declaration(p, FALSE)
        ELSE IF /\ t.type = "TOKEN_IDENTIFIER"
                /\ Then(peek_token(p), LAMBDA next :
                        next.type = "TOKEN_OPERATOR" /\ next.value = <<"=">>)
        THEN parse_assignment(p)
        ELSE Then(parse_expression(p, 0), LAMBDA expression :
             Then(match_token(expression.p, "TOKEN_PUNCTUATION", <<";">>), LAMBDA semicolon :
                 IF expression.node = NullNode
                 THEN Fail(parser_recover(report_error(expression.p, "Unexpected statement")))
                 ELSE IF ~semicolon.ok
                 THEN Fail(report_error(semicolon.p, "Expected ';' after statement"))
                 ELSE Parsed(semicolon.p, expression.node)))

(***************************************************************************)
(* Symbol table (compiler.c): a sequence of [name, index, isFunction].     *)
(***************************************************************************)
symbol_table_create == << >>

\* symbol_table_get_or_add without the search for the name
symbol_table_add(table, name, isFunction) ==
    [table |-> Append(table, [name |-> name, index |-> Len(table),
                              isFunction |-> isFunction]),
     index |-> Len(table)]

\* returns [table, index]
symbol_table_get_or_add(table, name, isFunction) ==
    IF \E i \in 1..Len(table) : table[i].name = name
    THEN LET i == CHOOSE j \in 1..Len(table) :
                      /\ table[j].name = name
                      /\ \A k \in 1..(j - 1) : table[k].name # name
         IN  [table |-> table, index |-> table[i].index]
    ELSE LET index == Len(table)
         IN  [table |-> Append(table, [name |-> name, index |-> index,
                                       isFunction |-> isFunction]),
              index |-> index]

(***************************************************************************)
(* Chunk functions (virtual_machine.c) and emitters (compiler.c).  The     *)
(* compilation state cs is [code, constants, symtab, errors]: the chunk,   *)
(* the symbol table and the diagnostics written to stderr.                 *)
(***************************************************************************)
vm_create_chunk == [code |-> << >>, constants |-> << >>]

vm_chunk_write_byte(cs, byte) == [cs EXCEPT !.code = Append(@, byte)]

vm_chunk_add_constant(cs, value) == [cs EXCEPT !.constants = Append(@, value)]

emit_byte(cs, byte) == vm_chunk_write_byte(cs, U8(byte))

\* the position of the two placeholder bytes is Len(result.code) - 2
emit_jump(cs, jumpOp) == emit_byte(emit_byte(emit_byte(cs, jumpOp), 255), 255)

patch_jump(cs, offset) ==
    LET jump_distance == Len(cs.code) - offset - 2
    IN  [cs EXCEPT !.code =
            SetAt(SetAt(@, offset, (jump_distance \div 256) % 256),
                  offset + 1, jump_distance % 256)]

\* emit_constant with the operand one past the index of the constant added
emit_constant_next_index(cs, val) ==
    LET index == Len(cs.constants) + 1
    IN  emit_byte(emit_byte(vm_chunk_add_constant(cs, val), OpCode.OP_LOAD_CONST), index)

emit_constant(cs, val) ==
    LET index == Len(cs.constants)
    IN  emit_byte(emit_byte(vm_chunk_add_constant(cs, val), OpCode.OP_LOAD_CONST), index)

emit_var_op(cs, op, name, isFunction) ==
    LET r == symbol_table_get_or_add(cs.symtab, name, isFunction)
    IN  emit_byte(emit_byte([cs EXCEPT !.symtab = r.table], op), r.index)

compile_error(cs, msg) == [cs EXCEPT !.errors = Append(@, msg)]

PRINT_NAME == <<"p", "r", "i", "n", "t">>

TRUE_LEXEME == <<"t", "r", "u", "e">>

BinaryOpcodes ==
    [sym \in {"+", "-", "*", "/", "==", "!=", "<", ">", "<=", ">="} |->
        CASE sym = "+"  -> OpCode.OP_ADD
          [] sym = "-"  -> OpCode.OP_SUB
          [] sym = "*"  -> OpCode.OP_MUL
          [] sym = "/"  -> OpCode.OP_DIV
          [] sym = "==" -> OpCode.OP_EQ
          [] sym = "!=" -> OpCode.OP_NEQ
          [] sym = "<"  -> OpCode.OP_LT
          [] sym = ">"  -> OpCode.OP_GT
          [] sym = "<=" -> OpCode.OP_LTE
          [] sym = ">=" -> OpCode.OP_GTE]

literal_constant(node) ==
    CASE node.token_type = "TOKEN_NUMBER"  -> atof(node.value)
      [] node.token_type = "TOKEN_STRING"  -> StringValue(node.value)
      [] node.token_type = "TOKEN_BOOLEAN" -> BooleanValue(node.value = TRUE_LEXEME)
      [] OTHER                             -> NullValue

RECURSIVE compile_expression(_, _)
RECURSIVE compile_expressions(_, _, _)
RECURSIVE compile_elements(_, _, _)
RECURSIVE compile_statement(_, _)
RECURSIVE compile_block(_, _, _, _)
RECURSIVE compile_ast(_, _)

\* for (i = 0; i < count; i++) compile_expression(nodes[i], ...)
compile_expressions(nodes, i, cs) ==
    IF i > Len(nodes) THEN cs
    ELSE compile_expressions(nodes, i + 1, compile_expression(nodes[i], cs))

\* for each element: OP_DUP, the element, OP_ARRAY_PUSH
compile_elements(nodes, i, cs) ==
    IF i > Len(nodes) THEN cs
    ELSE compile_elements(nodes, i + 1,
            emit_byte(compile_expression(nodes[i], emit_byte(cs, OpCode.OP_DUP)),
                      OpCode.OP_ARRAY_PUSH))

compile_expression(node, cs) ==
    CASE node.type = "AST_LITERAL" ->
            IF node.token_type \in {"TOKEN_NUMBER", "TOKEN_STRING", "TOKEN_BOOLEAN", "TOKEN_NULL"}
            THEN emit_constant(cs, literal_constant(node))
            ELSE emit_constant(compile_error(cs, "Unrecognized literal"), NullValue)
      [] node.type = "AST_VARIABLE" ->
            emit_var_op(cs, OpCode.OP_LOAD_VAR, node.variable_name, FALSE)
      [] node.type = "AST_ASSIGNMENT" ->
            emit_var_op(compile_expression(node.value, cs), OpCode.OP_STORE_VAR,
                        node.variable, FALSE)
      [] node.type = "AST_BINARY_OP" ->
            LET operands == compile_expression(node.right, compile_expression(node.left, cs))
            IN  IF node.op_symbol \in DOMAIN BinaryOpcodes
                THEN emit_byte(operands, BinaryOpcodes[node.op_symbol])
                ELSE compile_error(operands, "Unsupported binary operator")
      [] node.type = "AST_FUNCTION_CALL" ->
            LET args == compile_expressions(node.arguments, 1, cs)
            IN  IF node.function_name = PRINT_NAME
                THEN emit_byte(args, OpCode.OP_PRINT)
                ELSE emit_byte(emit_var_op(args, OpCode.OP_CALL, node.function_name, TRUE),
                               Len(node.arguments))
      [] node.type = "AST_ARRAY_LITERAL" ->
            compile_elements(node.elements, 1, emit_byte(cs, OpCode.OP_NEW_ARRAY))
      [] node.type = "AST_INDEX_ACCESS" ->
            emit_byte(compile_expression(node.index_expr,
                                         compile_expression(node.array_expr, cs)),
                      OpCode.OP_GET_INDEX)
      [] node.type = "AST_UNARY_OP" ->
            LET operand == compile_expression(node.operand, cs)
            IN  IF node.op_symbol = "!" THEN emit_byte(operand, OpCode.OP_NOT)
                ELSE IF node.op_symbol = "-" THEN emit_byte(operand, OpCode.OP_NEG)
                ELSE compile_error(operand, "Unknown unary op")
      [] OTHER -> compile_error(cs, "Unexpected node type in expression")

ExpressionNodeTypes ==
    {"AST_ASSIGNMENT", "AST_BINARY_OP", "AST_FUNCTION_CALL", "AST_ARRAY_LITERAL",
     "AST_INDEX_ACCESS", "AST_UNARY_OP", "AST_LITERAL", "AST_VARIABLE"}

StatementNodeTypes ==
    ExpressionNodeTypes \cup
    {"AST_VARIABLE_DECL", "AST_IF_STATEMENT", "AST_WHILE_LOOP", "AST_FOR_LOOP",
     "AST_FUNCTION_DEF", "AST_BLOCK", "AST_IMPORT", "AST_SWITCH_CASE"}

\* if (!node) return; then the dispatch to compile_statement.  (The test on the
\* code length is never true: it makes the state handed in complete before the
\* node is compiled.)
compile_node(node, cs) ==
    IF node.type = "NULL" \/ Len(cs.code) < 0 THEN cs
    ELSE IF node.type \in StatementNodeTypes THEN compile_statement(node, cs)
    ELSE compile_error(cs, "compile_node unrecognized AST type")

\* the files an import can name, as what read_file and parse_script make of
\* them: the root of the unit, NullNode when parse_script returns NULL; a path
\* outside the domain cannot be opened
\*   a.ember:   var x = 7; print(x);
\*   b.ember:   import "a.ember"; print(1);
\*   bad.ember: text the parser rejects
SourceFiles ==
    [path \in {"a.ember", "b.ember", "bad.ember"} |->
        CASE path = "a.ember" ->
                Block(<<VariableDecl(<<"x">>, Literal("TOKEN_NUMBER", <<"7">>)),
                        FunctionCall(PRINT_NAME, <<Variable(<<"x">>)>>)>>)
          [] path = "b.ember" ->
                Block(<<Import("a.ember"),
                        FunctionCall(PRINT_NAME, <<Literal("TOKEN_NUMBER", <<"1">>)>>)>>)
          [] OTHER -> NullNode]

\* the sub-compilation without step 4 of the import: its OP_EOF stays
keep_final_eof(cs) == cs

\* step 4 of the import: if the last byte of the code is OP_EOF, code_count--
remove_final_eof(cs) ==
    IF Len(cs.code) > 0 /\ cs.code[Len(cs.code)] = OpCode.OP_EOF
    THEN [cs EXCEPT !.code = SubSeq(@, 1, Len(@) - 1)]
    ELSE cs

\* emit OP_LOOP and its two operand bytes back to loopStart
emit_loop(cs, loopStart) ==
    LET op     == emit_byte(cs, OpCode.OP_LOOP)
        offset == Len(op.code) - loopStart + 2
    IN  emit_byte(emit_byte(op, (offset \div 256) % 256), offset % 256)

\* for (i = lo; i <= hi; i++) compile_node(statements[i], ...), the statements
\* numbered from 1.  The loop is evaluated as its first half followed by its
\* second half, and the test on the code length makes the first half complete
\* before the second starts: the result is that of the loop.
compile_block(stmts, lo, hi, cs) ==
    IF lo > hi THEN cs
    ELSE IF lo = hi THEN compile_node(stmts[lo], cs)
    ELSE LET mid   == (lo + hi) \div 2
             first == compile_block(stmts, lo, mid, cs)
         IN  IF Len(first.code) >= 0 THEN compile_block(stmts, mid + 1, hi, first)
             ELSE first

compile_statement(node, cs) ==
    CASE node.type = "AST_VARIABLE_DECL" ->
            LET init == IF node.initial_value.type # "NULL"
                        THEN compile_expression(node.initial_value, cs)
                        ELSE emit_constant(cs, NullValue)
            IN  emit_var_op(init, OpCode.OP_STORE_VAR, node.variable_name, FALSE)
      [] node.type \in ExpressionNodeTypes ->
            emit_byte(compile_expression(node, cs), OpCode.OP_POP)
      [] node.type = "AST_IF_STATEMENT" ->
            LET cond     == emit_jump(compile_expression(node.condition, cs),
                                      OpCode.OP_JUMP_IF_FALSE)
                elseJump == Len(cond.code) - 2
                body     == emit_jump(compile_node(node.body, cond), OpCode.OP_JUMP)
                endJump  == Len(body.code) - 2
                patched  == patch_jump(body, elseJump)
                elseBody == IF node.else_body.type # "NULL"
                            THEN compile_node(node.else_body, patched)
                            ELSE patched
            IN  patch_jump(elseBody, endJump)
      [] node.type = "AST_WHILE_LOOP" ->
            LET loopStart   == Len(cs.code)
                cond        == emit_jump(compile_expression(node.condition, cs),
                                         OpCode.OP_JUMP_IF_FALSE)
                loopEndJump == Len(cond.code) - 2
                body        == compile_node(node.body, cond)
            IN  patch_jump(emit_loop(body, loopStart), loopEndJump)
      [] node.type = "AST_FOR_LOOP" ->
            LET init        == IF node.initializer.type # "NULL"
                               THEN compile_node(node.initializer, cs)
                               ELSE cs
                loopStart   == Len(init.code)
                condExpr    == IF node.condition.type # "NULL"
                               THEN compile_expression(node.condition, init)
                               ELSE emit_constant(init, BooleanValue(TRUE))
                cond        == emit_jump(condExpr, OpCode.OP_JUMP_IF_FALSE)
                loopEndJump == Len(cond.code) - 2
                body        == compile_node(node.body, cond)
                inc         == IF node.increment.type # "NULL"
                               THEN emit_byte(compile_expression(node.increment, body),
                                              OpCode.OP_POP)
                               ELSE body
            IN  patch_jump(emit_loop(inc, loopStart), loopEndJump)
      [] node.type = "AST_FUNCTION_DEF" ->
            [cs EXCEPT !.symtab =
                symbol_table_get_or_add(cs.symtab, node.function_name, TRUE).table]
      [] node.type = "AST_BLOCK" ->
            compile_block(node.statements, 1, Len(node.statements), cs)
      [] node.type = "AST_IMPORT" ->
            IF node.import_path \notin DOMAIN SourceFiles
            THEN compile_error(cs, "Could not open import file")
            ELSE LET import_root == SourceFiles[node.import_path]
                 IN  IF import_root.type = "NULL"
                     THEN compile_error(cs, "Parsing import failed")
                     ELSE LET sub == compile_ast(import_root, cs)
                              merged == IF sub.ok THEN sub.cs
                                        ELSE compile_error(sub.cs, "Sub-compile failed")
                          IN  remove_final_eof(merged)
      [] node.type = "AST_SWITCH_CASE" ->
            compile_error(cs, "Switch/case code generation not implemented")
      [] OTHER -> compile_error(cs, "Unhandled statement node type")

\* returns [ok, cs]; ast, chunk and symtab are never NULL here
compile_ast(ast, cs) ==
    [ok |-> TRUE, cs |-> emit_byte(compile_node(ast, cs), OpCode.OP_EOF)]


(***************************************************************************)
(* Text renderings of numbers: printf("%.2f") in runtime_value_to_string   *)
(* and printf("%g") in OP_PRINT.                                           *)
(***************************************************************************)
RECURSIVE Pow10(_)
Pow10(k) == IF k <= 0 THEN 1 ELSE 10 * Pow10(k - 1)

RECURSIVE DigitsOf(_)
DigitsOf(n) == IF n < 10 THEN <<Digits[n + 1]>> ELSE Append(DigitsOf(n \div 10), Digits[(n % 10) + 1])

RECURSIVE ZeroPad(_, _)
ZeroPad(s, width) == IF Len(s) >= width THEN s ELSE ZeroPad(<<"0">> \o s, width)

\* |n/d| scaled by 10^k and rounded to the nearest integer, ties to even
RoundScaled(n, d, k) ==
    LET a == Abs(n) * Pow10(k)
        q == a \div d
        r == a % d
    IN  IF 2 * r > d \/ (2 * r = d /\ q % 2 = 1) THEN q + 1 ELSE q

\* "%.<k>f" of n/d
format_f(n, d, k) ==
    LET scaled == RoundScaled(n, d, k)
        sign   == IF n < 0 THEN <<"-">> ELSE << >>
        int    == DigitsOf(scaled \div Pow10(k))
        frac   == ZeroPad(DigitsOf(scaled % Pow10(k)), k)
    IN  sign \o int \o (IF k > 0 THEN <<".">> \o frac ELSE << >>)

RECURSIVE StripZeros(_)
StripZeros(s) ==
    IF s # << >> /\ s[Len(s)] = "0" THEN StripZeros(SubSeq(s, 1, Len(s) - 1))
    ELSE IF s # << >> /\ s[Len(s)] = "." THEN SubSeq(s, 1, Len(s) - 1)
    ELSE s

\* the decimal exponent X with 10^X <= n/d < 10^(X+1), for n/d > 0
RECURSIVE Exp10(_, _, _)
Exp10(n, d, x) ==
    IF n >= 10 * d THEN Exp10(n, 10 * d, x + 1)
    ELSE IF n < d THEN Exp10(10 * n, d, x - 1)
    ELSE x

\* "%g" of n/d (precision 6)
format_g(n, d) ==
    IF n = 0 THEN <<"0">>
    ELSE LET x0 == Exp10(Abs(n), d, 0)
             \* rounding to 6 significant digits may carry into the next decade
             m0 == IF x0 <= 5 THEN RoundScaled(n, d, 5 - x0)
                   ELSE RoundScaled(n, d * Pow10(x0 - 5), 0)
             x  == IF m0 >= Pow10(6) THEN x0 + 1 ELSE x0
             sign == IF n < 0 THEN <<"-">> ELSE << >>
         IN  IF x >= -4 /\ x < 6
             THEN sign \o StripZeros(format_f(Abs(n), d, 5 - x))
             ELSE LET m  == IF m0 >= Pow10(6) THEN m0 \div 10 ELSE m0
                      ds == ZeroPad(DigitsOf(m), 6)
                      mant == StripZeros(<<ds[1], ".">> \o SubSeq(ds, 2, 6))
                  IN  sign \o mant \o <<"e", IF x < 0 THEN "-" ELSE "+">>
                           \o ZeroPad(DigitsOf(Abs(x)), 2)

Chars(str) ==
    CASE str = "true"  -> <<"t", "r", "u", "e">>
      [] str = "false" -> <<"f", "a", "l", "s", "e">>
      [] str = "null"  -> <<"n", "u", "l", "l">>
      [] str = "unknown" -> <<"u", "n", "k", "n", "o", "w", "n">>
      [] str = "[Object or Array]" ->
            <<"[", "O", "b", "j", "e", "c", "t", " ", "o", "r", " ", "A", "r", "r", "a", "y", "]">>

\* runtime.c
runtime_value_to_string(value) ==
    CASE value.type = "RUNTIME_VALUE_NUMBER"  -> format_f(value.num, value.den, 2)
      [] value.type = "RUNTIME_VALUE_STRING"  -> value.string_value
      [] value.type = "RUNTIME_VALUE_BOOLEAN" ->
            IF value.boolean_value THEN Chars("true") ELSE Chars("false")
      [] value.type = "RUNTIME_VALUE_NULL"    -> Chars("null")
      [] OTHER                                -> Chars("unknown")


(***************************************************************************)
(* The virtual machine (virtual_machine.c).  A machine m is                *)
(*   [chunk, ip, stack, g_globals, stdout, stderr, state, status]          *)
(* ip is the offset of vm->ip in chunk.code, stack the values below        *)
(* stack_top, g_globals the slots written so far (a slot never written     *)
(* holds the zero bytes of static storage), stdout and stderr the lines    *)
(* written, state "running", "returned" (vm_run returned status) or        *)
(* "undefined" (a read outside the code or constants buffer, a use of an   *)
(* elements pointer that realloc may have freed).  allocated counts the    *)
(* element buffers realloc has returned, freed holds those it was given.   *)
(***************************************************************************)
stack_capacity == 256

\* static RuntimeValue g_globals[256]: all bytes zero, that is type 0 and 0.0
ZeroSlot == NumberValue(0)

vm_create(chunk, globals) ==
    [chunk |-> chunk, ip |-> 0, stack |-> << >>, g_globals |-> globals,
     stdout |-> << >>, stderr |-> << >>, state |-> "running", status |-> 0,
     allocated |-> 0, freed |-> {}]

\* a push that stores at stack_top whatever the depth is
vm_push_unchecked(m, value) == [m EXCEPT !.stack = Append(@, value)]

vm_push(m, value) ==
    IF Len(m.stack) >= stack_capacity
    THEN [m EXCEPT !.stderr = Append(@, "VM Error: Stack overflow.")]
    ELSE [m EXCEPT !.stack = Append(@, value)]

\* the value vm_pop returns
vm_pop_value(m) == IF m.stack = << >> THEN NullValue ELSE m.stack[Len(m.stack)]

\* the machine after vm_pop
vm_pop(m) ==
    IF m.stack = << >>
    THEN [m EXCEPT !.stderr = Append(@, "VM Error: Stack underflow.")]
    ELSE [m EXCEPT !.stack = SubSeq(@, 1, Len(@) - 1)]

vm_return(m, status) == [m EXCEPT !.state = "returned", !.status = status]

vm_error(m, msg) == vm_return([m EXCEPT !.stderr = Append(@, msg)], 1)

vm_print(m, line) == [m EXCEPT !.stdout = Append(@, line)]

IsNumber(v) == v.type = "RUNTIME_VALUE_NUMBER"

IsString(v) == v.type = "RUNTIME_VALUE_STRING"

\* double arithmetic on exact rationals
NumAdd(a, b) == Rat(a.num * b.den + b.num * a.den, a.den * b.den)

NumSub(a, b) == Rat(a.num * b.den - b.num * a.den, a.den * b.den)

NumMul(a, b) == Rat(a.num * b.num, a.den * b.den)

NumDiv(a, b) == Rat(a.num * b.den, a.den * b.num)

NumLess(a, b) == a.num * b.den < b.num * a.den

\* (int)x: truncation toward zero
NumTrunc(a) == IF a.num >= 0 THEN a.num \div a.den ELSE -((-a.num) \div a.den)

\* fmod(a, b) = a - b * trunc(a / b)
NumFmod(a, b) == NumSub(a, NumMul(b, NumberValue(NumTrunc(NumDiv(a, b)))))

\* pop b, then a
Pop2(m) == vm_pop(vm_pop(m))

Top(m) == vm_pop_value(m)

Second(m) == vm_pop_value(vm_pop(m))

\* OP_ADD with case 3 (X + string) concatenating the string first
op_add_string_first(m) ==
    LET b == Top(m)
        a == Second(m)
        m2 == Pop2(m)
    IN  IF IsString(a) /\ IsString(b)
        THEN vm_push(m2, StringValue(a.string_value \o b.string_value))
        ELSE IF IsString(a)
        THEN vm_push(m2, StringValue(a.string_value \o runtime_value_to_string(b)))
        ELSE IF IsString(b)
        THEN vm_push(m2, StringValue(b.string_value \o runtime_value_to_string(a)))
        ELSE IF IsNumber(a) /\ IsNumber(b)
        THEN vm_push(m2, Rat(a.num * b.den + b.num * a.den, a.den * b.den))
        ELSE vm_error(m2, "VM Error: OP_ADD cannot handle these operand types.")

op_add(m) ==
    LET b == Top(m)
        a == Second(m)
        m2 == Pop2(m)
    IN  IF IsString(a) /\ IsString(b)
        THEN vm_push(m2, StringValue(a.string_value \o b.string_value))
        ELSE IF IsString(a)
        THEN vm_push(m2, StringValue(a.string_value \o runtime_value_to_string(b)))
        ELSE IF IsString(b)
        THEN vm_push(m2, StringValue(runtime_value_to_string(a) \o b.string_value))
        ELSE IF IsNumber(a) /\ IsNumber(b)
        THEN vm_push(m2, NumAdd(a, b))
        ELSE vm_error(m2, "VM Error: OP_ADD cannot handle these operand types.")

\* OP_SUB, OP_MUL, OP_DIV, OP_MOD where a zero divisor is reported and the loop
\* goes on
op_arith_zero_goes_on(m, instruction) ==
    LET b == Top(m)
        a == Second(m)
        m2 == Pop2(m)
    IN  IF IsNumber(a) /\ IsNumber(b)
        THEN CASE instruction = OpCode.OP_SUB -> vm_push(m2, NumSub(a, b))
               [] instruction = OpCode.OP_MUL -> vm_push(m2, NumMul(a, b))
               [] instruction = OpCode.OP_DIV ->
                    IF b.num = 0
                    THEN [m2 EXCEPT !.stderr = Append(@, "VM Error: Division by zero.")]
                    ELSE vm_push(m2, NumDiv(a, b))
               [] instruction = OpCode.OP_MOD ->
                    IF b.num = 0
                    THEN [m2 EXCEPT !.stderr = Append(@, "VM Error: Modulo by zero.")]
                    ELSE vm_push(m2, NumFmod(a, b))
        ELSE vm_error(m2, "VM Error: operator expects two numbers.")

\* OP_SUB, OP_MUL, OP_DIV, OP_MOD
op_arith(m, instruction) ==
    LET b == Top(m)
        a == Second(m)
        m2 == Pop2(m)
    IN  IF IsNumber(a) /\ IsNumber(b)
        THEN CASE instruction = OpCode.OP_SUB -> vm_push(m2, NumSub(a, b))
               [] instruction = OpCode.OP_MUL -> vm_push(m2, NumMul(a, b))
               [] instruction = OpCode.OP_DIV ->
                    IF b.num = 0 THEN vm_error(m2, "VM Error: Division by zero.")
                    ELSE vm_push(m2, NumDiv(a, b))
               [] instruction = OpCode.OP_MOD ->
                    IF b.num = 0 THEN vm_error(m2, "VM Error: Modulo by zero.")
                    ELSE vm_push(m2, NumFmod(a, b))
        ELSE vm_error(m2, "VM Error: operator expects two numbers.")

op_neg(m) ==
    LET val == Top(m)
    IN  IF IsNumber(val)
        THEN vm_push(vm_pop(m), Rat(-val.num, val.den))
        ELSE vm_error(vm_pop(m), "VM Error: OP_NEG expects a number.")

op_not(m) ==
    LET val == Top(m)
        truthy == CASE val.type = "RUNTIME_VALUE_NUMBER" -> val.num # 0
                    [] val.type = "RUNTIME_VALUE_STRING" -> val.string_value # << >>
                    [] OTHER -> FALSE
    IN  IF val.type = "RUNTIME_VALUE_BOOLEAN"
        THEN vm_push(vm_pop(m), BooleanValue(~val.boolean_value))
        ELSE vm_push(vm_pop(m), BooleanValue(~truthy))

\* OP_EQ, OP_NEQ, OP_LT, OP_GT, OP_LTE, OP_GTE
op_compare(m, instruction) ==
    LET b == Top(m)
        a == Second(m)
        m2 == Pop2(m)
        equal == IF a.type = b.type
                 THEN CASE a.type = "RUNTIME_VALUE_BOOLEAN" -> a.boolean_value = b.boolean_value
                        [] a.type = "RUNTIME_VALUE_STRING"  -> a.string_value = b.string_value
                        [] a.type = "RUNTIME_VALUE_NULL"    -> TRUE
                        [] OTHER -> FALSE
                 ELSE FALSE
        comparison ==
            IF IsNumber(a) /\ IsNumber(b)
            THEN CASE instruction = OpCode.OP_EQ  -> a = b
                   [] instruction = OpCode.OP_NEQ -> a # b
                   [] instruction = OpCode.OP_LT  -> NumLess(a, b)
                   [] instruction = OpCode.OP_GT  -> NumLess(b, a)
                   [] instruction = OpCode.OP_LTE -> ~NumLess(b, a)
                   [] instruction = OpCode.OP_GTE -> ~NumLess(a, b)
            ELSE IF instruction = OpCode.OP_EQ THEN equal
            ELSE IF instruction = OpCode.OP_NEQ THEN ~equal
            ELSE FALSE
    IN  vm_push(m2, BooleanValue(comparison))

\* (uint16_t)(((*vm->ip++) << 8) | (*vm->ip++)): the two increments are
\* unsequenced, so which operand byte lands in the high half is the build's
\* choice: order "hi_lo" reads the first byte as the high byte, "lo_hi" the
\* second.  m.ip is the offset of the first operand byte.
read_u16(m, order) ==
    LET first  == At(m.chunk.code, m.ip)
        second == At(m.chunk.code, m.ip + 1)
    IN  IF order = "hi_lo" THEN first * 256 + second ELSE second * 256 + first

op_jump_if_false(m, order) ==
    LET offset  == read_u16(m, order)
        cond    == Top(m)
        isFalse == CASE cond.type = "RUNTIME_VALUE_BOOLEAN" -> ~cond.boolean_value
                     [] cond.type = "RUNTIME_VALUE_NUMBER"  -> cond.num = 0
                     [] cond.type = "RUNTIME_VALUE_NULL"    -> TRUE
                     [] OTHER -> FALSE
        m2      == [vm_pop(m) EXCEPT !.ip = @ + 2]
    IN  IF isFalse THEN [m2 EXCEPT !.ip = @ + offset] ELSE m2

op_jump(m, order) == [m EXCEPT !.ip = @ + 2 + read_u16(m, order)]

op_loop(m, order) == [m EXCEPT !.ip = @ + 2 - read_u16(m, order)]

\* realloc of the buffer `old` (0 for NULL): the result is buffer allocated + 1,
\* and the old buffer is one that realloc may have freed
realloc(m, old) ==
    [m EXCEPT !.allocated = @ + 1, !.freed = IF old = 0 THEN @ ELSE @ \cup {old}]

\* a copy of the array struct whose buffer went through realloc since holds a
\* pointer that is dangling whenever the allocator moved the block: using it
\* is "undefined"
op_array_push(m) ==
    LET val == Top(m)
        arr == Second(m)
        m2  == Pop2(m)
    IN  IF arr.type # "RUNTIME_VALUE_ARRAY"
        THEN vm_error(m2, "VM Error: OP_ARRAY_PUSH on non-array.")
        ELSE IF arr.buffer \in m2.freed
        THEN [m2 EXCEPT !.state = "undefined"]
        ELSE vm_push(realloc(m2, arr.buffer),
                     [ArrayValue(Append(arr.elements, val)) EXCEPT !.buffer = m2.allocated + 1])

op_get_index(m) ==
    LET indexVal == Top(m)
        arrVal   == Second(m)
        m2       == Pop2(m)
    IN  IF arrVal.type # "RUNTIME_VALUE_ARRAY"
        THEN vm_error(m2, "VM Error: OP_GET_INDEX on non-array.")
        ELSE IF indexVal.type # "RUNTIME_VALUE_NUMBER"
        THEN vm_error(m2, "VM Error: OP_GET_INDEX requires numeric index.")
        ELSE LET idx == NumTrunc(indexVal)
             IN  IF idx < 0 \/ idx >= Len(arrVal.elements)
                 THEN vm_error(m2, "VM Error: Array index out of bounds.")
                 ELSE IF arrVal.buffer \in m2.freed
                 THEN [m2 EXCEPT !.state = "undefined"]
                 ELSE vm_push(m2, At(arrVal.elements, idx))

\* the text OP_PRINT writes for a value
print_text(v) ==
    CASE v.type = "RUNTIME_VALUE_NUMBER"  -> format_g(v.num, v.den)
      [] v.type = "RUNTIME_VALUE_STRING"  -> v.string_value
      [] v.type = "RUNTIME_VALUE_BOOLEAN" ->
            IF v.boolean_value THEN Chars("true") ELSE Chars("false")
      [] v.type = "RUNTIME_VALUE_NULL"    -> Chars("null")
      [] OTHER -> Chars("[Object or Array]")

op_print(m) == vm_print(vm_pop(m), print_text(Top(m)))

load_global(m, varIndex) ==
    IF varIndex \in DOMAIN m.g_globals THEN m.g_globals[varIndex] ELSE ZeroSlot

store_global(m, varIndex, value) ==
    [m EXCEPT !.g_globals =
        [i \in DOMAIN @ \cup {varIndex} |-> IF i = varIndex THEN value ELSE @[i]]]

\* the number of operand bytes the handler of an opcode reads
OperandBytes(instruction) ==
    CASE instruction \in {OpCode.OP_LOAD_CONST, OpCode.OP_LOAD_VAR, OpCode.OP_STORE_VAR} -> 1
      [] instruction \in {OpCode.OP_JUMP, OpCode.OP_JUMP_IF_FALSE, OpCode.OP_LOOP,
                          OpCode.OP_CALL} -> 2
      [] OTHER -> 0

\* one iteration of the for (;;) loop of vm_run; m.state = "running"
vm_step(m0, order) ==
    IF m0.ip < 0 \/ m0.ip >= Len(m0.chunk.code)
    THEN [m0 EXCEPT !.state = "undefined"]
    ELSE
    LET instruction == At(m0.chunk.code, m0.ip)
        m == [m0 EXCEPT !.ip = @ + 1]
        operand == At(m.chunk.code, m.ip)
        m1 == [m EXCEPT !.ip = @ + 1]
    IN  IF m.ip + OperandBytes(instruction) > Len(m.chunk.code)
        THEN [m EXCEPT !.state = "undefined"]
        ELSE
        CASE instruction = OpCode.OP_NOOP -> m
          [] instruction = OpCode.OP_EOF  -> vm_return(m, 0)
          [] instruction = OpCode.OP_POP  -> vm_pop(m)
          [] instruction = OpCode.OP_DUP  ->
                vm_push(vm_push(vm_pop(m), Top(m)), Top(m))
          [] instruction = OpCode.OP_SWAP ->
                vm_push(vm_push(Pop2(m), Top(m)), Second(m))
          [] instruction = OpCode.OP_LOAD_CONST ->
                IF operand >= Len(m.chunk.constants)
                THEN [m1 EXCEPT !.state = "undefined"]
                ELSE vm_push(m1, At(m.chunk.constants, operand))
          [] instruction = OpCode.OP_LOAD_VAR  -> vm_push(m1, load_global(m1, operand))
          [] instruction = OpCode.OP_STORE_VAR -> store_global(vm_pop(m1), operand, Top(m1))
          [] instruction = OpCode.OP_ADD -> op_add(m)
          [] instruction \in {OpCode.OP_SUB, OpCode.OP_MUL, OpCode.OP_DIV, OpCode.OP_MOD} ->
                op_arith(m, instruction)
          [] instruction = OpCode.OP_NEG -> op_neg(m)
          [] instruction = OpCode.OP_NOT -> op_not(m)
          [] instruction \in {OpCode.OP_EQ, OpCode.OP_NEQ, OpCode.OP_LT, OpCode.OP_GT,
                              OpCode.OP_LTE, OpCode.OP_GTE} -> op_compare(m, instruction)
          [] instruction = OpCode.OP_JUMP_IF_FALSE -> op_jump_if_false(m, order)
          [] instruction = OpCode.OP_JUMP -> op_jump(m, order)
          [] instruction = OpCode.OP_LOOP -> op_loop(m, order)
          [] instruction = OpCode.OP_CALL -> [m EXCEPT !.ip = @ + 2]
          [] instruction = OpCode.OP_RETURN -> vm_return(m, 0)
          [] instruction = OpCode.OP_NEW_ARRAY -> vm_push(m, ArrayValue(<< >>))
          [] instruction = OpCode.OP_ARRAY_PUSH -> op_array_push(m)
          [] instruction = OpCode.OP_GET_INDEX -> op_get_index(m)
          [] instruction = OpCode.OP_PRINT -> op_print(m)
          [] instruction = OpCode.OP_TO_STRING -> m
          [] OTHER -> vm_error(m, "VM Error: Unknown opcode.")


(***************************************************************************)
(* The bytecode file (main.c): a sequence of bytes 0..255.  int and the    *)
(* enum tag are 4 bytes in host order (little-endian here); a double is    *)
(* its 8-byte object representation, modelled by the 4-byte images of num  *)
(* and den; a character is its ASCII code (Ascii[i] is the character of     *)
(* code 31 + i; the grave accent, code 96, is spelled "GRAVE").            *)
(***************************************************************************)
Ascii ==
    <<" ", "!", "\"", "#", "$", "%", "&", "'", "(", ")", "*", "+", ",", "-", ".", "/",
      "0", "1", "2", "3", "4", "5", "6", "7", "8", "9", ":", ";", "<", "=", ">", "?",
      "@", "A", "B", "C", "D", "E", "F", "G", "H", "I", "J", "K", "L", "M", "N", "O",
      "P", "Q", "R", "S", "T", "U", "V", "W", "X", "Y", "Z", "[", "\\", "]", "^", "_",
      "GRAVE", "a", "b", "c", "d", "e", "f", "g", "h", "i", "j", "k", "l", "m", "n", "o",
      "p", "q", "r", "s", "t", "u", "v", "w", "x", "y", "z", "{", "|", "}", "~">>

CharCode(ch) == 31 + (CHOOSE i \in 1..Len(Ascii) : Ascii[i] = ch)

CodeChar(b) == Ascii[b - 31]

\* the 4 bytes of a 32-bit int (two's complement), low byte first
IntBytes(n) ==
    LET lo == n % 65536                \* n mod 2^16, in 0..65535
        hi == ((n - lo) \div 65536) % 65536
    IN  <<lo % 256, lo \div 256, hi % 256, hi \div 256>>

BytesInt(b) ==
    LET lo == b[1] + 256 * b[2]
        hi == b[3] + 256 * b[4]
    IN  IF hi >= 32768 THEN (hi - 65536) * 65536 + lo ELSE hi * 65536 + lo

DoubleBytes(v) == IntBytes(v.num) \o IntBytes(v.den)

BytesDouble(b) ==
    [type |-> "RUNTIME_VALUE_NUMBER", num |-> BytesInt(SubSeq(b, 1, 4)),
     den |-> BytesInt(SubSeq(b, 5, 8))]

TypeTag(t) == RuntimeValueType[t]

\* the bytes of a string, and the string of some bytes
StringBytes(s) == [i \in 1..Len(s) |-> CharCode(s[i])]

BytesString(b) == [i \in 1..Len(b) |-> CodeChar(b[i])]

\* constant_bytes with a boolean written as the 4 bytes of an int
constant_bytes_wide_bool(c) ==
    IntBytes(TypeTag(c.type)) \o
    CASE c.type = "RUNTIME_VALUE_NUMBER"  -> DoubleBytes(c)
      [] c.type = "RUNTIME_VALUE_BOOLEAN" -> IntBytes(IF c.boolean_value THEN 1 ELSE 0)
      [] c.type = "RUNTIME_VALUE_NULL"    -> << >>
      [] c.type = "RUNTIME_VALUE_STRING"  ->
            IntBytes(Len(c.string_value)) \o StringBytes(c.string_value)
      [] OTHER -> << >>

\* the bytes write_chunk writes for constant c: fwrite of the tag, then the payload
constant_bytes(c) ==
    IntBytes(TypeTag(c.type)) \o
    CASE c.type = "RUNTIME_VALUE_NUMBER"  -> DoubleBytes(c)
      [] c.type = "RUNTIME_VALUE_BOOLEAN" -> <<IF c.boolean_value THEN 1 ELSE 0>>
      [] c.type = "RUNTIME_VALUE_NULL"    -> << >>
      [] c.type = "RUNTIME_VALUE_STRING"  ->
            IntBytes(Len(c.string_value)) \o StringBytes(c.string_value)
      [] OTHER -> << >>        \* default: a warning on stderr, nothing written

\* the bytes of constants lo..hi (numbered from 1), in order
RECURSIVE constants_bytes(_, _, _)
constants_bytes(constants, lo, hi) ==
    IF lo > hi THEN << >>
    ELSE IF lo = hi THEN constant_bytes(constants[lo])
    ELSE LET mid == (lo + hi) \div 2
         IN  constants_bytes(constants, lo, mid) \o constants_bytes(constants, mid + 1, hi)

SupportedTypes ==
    {"RUNTIME_VALUE_NUMBER", "RUNTIME_VALUE_BOOLEAN", "RUNTIME_VALUE_NULL", "RUNTIME_VALUE_STRING"}

\* returns [status, file, warnings]; the output file can always be opened here
write_chunk(chunk) ==
    [status |-> 0,
     file |-> IntBytes(Len(chunk.code)) \o IntBytes(Len(chunk.constants)) \o chunk.code
              \o constants_bytes(chunk.constants, 1, Len(chunk.constants)),
     warnings |-> Cardinality({i \in 1..Len(chunk.constants) :
                                  chunk.constants[i].type \notin SupportedTypes})]

\* a NULL BytecodeChunk*
NoChunk == [null |-> TRUE]

IsNoChunk(c) == "null" \in DOMAIN c

\* read_constant with a default case that, like the one of write_chunk, goes on:
\* a constant of an unknown tag has no data and is kept as null
read_constant_lenient(file, r) ==
    IF IsNoChunk(r) THEN NoChunk
    ELSE IF r.pos + 4 > Len(file) THEN NoChunk
    ELSE LET t == BytesInt(SubSeq(file, r.pos + 1, r.pos + 4))
             p == r.pos + 4
             read(size, value) == [pos |-> p + size, constants |-> Append(r.constants, value)]
         IN  CASE t = RuntimeValueType.RUNTIME_VALUE_NUMBER ->
                    IF p + 8 > Len(file) THEN NoChunk
                    ELSE read(8, BytesDouble(SubSeq(file, p + 1, p + 8)))
               [] t = RuntimeValueType.RUNTIME_VALUE_BOOLEAN ->
                    IF p + 1 > Len(file) THEN NoChunk
                    ELSE read(1, BooleanValue(file[p + 1] # 0))
               [] t = RuntimeValueType.RUNTIME_VALUE_STRING ->
                    IF p + 4 > Len(file) THEN NoChunk
                    ELSE LET slen == BytesInt(SubSeq(file, p + 1, p + 4))
                         IN  IF slen < 0 \/ p + 4 + slen > Len(file) THEN NoChunk
                             ELSE read(4 + slen, StringValue(
                                        BytesString(SubSeq(file, p + 5, p + 4 + slen))))
               [] OTHER -> read(0, NullValue)

\* one iteration of the loop over the constants: r is [pos, constants], the file
\* position (0-based) and the constants read so far, or NoChunk after a failure
read_constant(file, r) ==
    IF IsNoChunk(r) THEN NoChunk
    ELSE IF r.pos + 4 > Len(file) THEN NoChunk
    ELSE LET t == BytesInt(SubSeq(file, r.pos + 1, r.pos + 4))
             p == r.pos + 4
             read(size, value) == [pos |-> p + size, constants |-> Append(r.constants, value)]
         IN  CASE t = RuntimeValueType.RUNTIME_VALUE_NUMBER ->
                    IF p + 8 > Len(file) THEN NoChunk
                    ELSE read(8, BytesDouble(SubSeq(file, p + 1, p + 8)))
               [] t = RuntimeValueType.RUNTIME_VALUE_BOOLEAN ->
                    IF p + 1 > Len(file) THEN NoChunk
                    ELSE read(1, BooleanValue(file[p + 1] # 0))
               [] t = RuntimeValueType.RUNTIME_VALUE_NULL -> read(0, NullValue)
               [] t = RuntimeValueType.RUNTIME_VALUE_STRING ->
                    IF p + 4 > Len(file) THEN NoChunk
                    ELSE LET slen == BytesInt(SubSeq(file, p + 1, p + 4))
                         IN  IF slen < 0 \/ p + 4 + slen > Len(file) THEN NoChunk
                             ELSE read(4 + slen, StringValue(
                                        BytesString(SubSeq(file, p + 5, p + 4 + slen))))
               [] OTHER -> NoChunk

\* for (i = 0; i < count; i++) read one constant; a failure returns at once.
\* The loop is evaluated as its first half followed by its second half.
RECURSIVE read_constants(_, _, _)
read_constants(file, r, count) ==
    IF count = 0 \/ IsNoChunk(r) THEN r
    ELSE IF count = 1 THEN read_constant(file, r)
    ELSE LET first == read_constants(file, r, count \div 2)
         IN  IF IsNoChunk(first) THEN NoChunk
             ELSE read_constants(file, first, count - (count \div 2))

\* returns the chunk read, or NoChunk (NULL).  malloc(0) is taken to return a
\* non-NULL pointer, as the common C libraries do.
read_chunk(file) ==
    IF Len(file) < 8 THEN NoChunk
    ELSE LET code_count      == BytesInt(SubSeq(file, 1, 4))
             constants_count == BytesInt(SubSeq(file, 5, 8))
         IN  IF code_count < 0 \/ 8 + code_count > Len(file) THEN NoChunk
             ELSE IF constants_count < 0 THEN NoChunk
             ELSE LET r == read_constants(file, [pos |-> 8 + code_count, constants |-> << >>],
                                          constants_count)
                  IN  IF IsNoChunk(r) THEN NoChunk
                      ELSE [code |-> SubSeq(file, 9, 8 + code_count),
                            constants |-> r.constants]


(***************************************************************************)
(* Programs: the ASTs parse_script hands to compile_ast.  The root is a    *)
(* block of top-level statements.                                          *)
(***************************************************************************)
\* the largest argument list and array literal
MaxArgs == 2

\* the statements "x;" (3 bytes each) that, followed by -"x"; (4 bytes), make the
\* shortest loop body whose backward offset (body + 8) needs more than 16 bits
LongBodyStatements == (Pow2(16) - 10) \div 3

\* the declarations of the program with more than 2^8 constants and symbols
ManyDeclarations == 257

x_name == <<"x">>

f_name == <<"f">>

One == Literal("TOKEN_NUMBER", <<"1">>)

Zero == Literal("TOKEN_NUMBER", <<"0">>)

Str == Literal("TOKEN_STRING", <<"x">>)

True == Literal("TOKEN_BOOLEAN", TRUE_LEXEME)

Null == Literal("TOKEN_NULL", <<"n", "u", "l", "l">>)

X == Variable(x_name)

Atoms == {One, Zero, Str, True, Null, X}

PrintCall(e) == FunctionCall(PRINT_NAME, <<e>>)

\* the sequences One, ..., One of length 0..MaxArgs
Ones == {[i \in 1..n |-> One] : n \in 0..MaxArgs}

OperandPairs == {<<One, One>>, <<One, Str>>, <<Str, Str>>, <<X, One>>, <<One, Zero>>}

\* every operator lexeme the parser accepts as a binary operator
BinarySymbols == {"+", "-", "*", "/", "%", "==", "!=", "<", ">", "<=", ">=", "&&", "||"}

Expressions ==
    Atoms
    \cup {UnaryOp(op, a) : op \in {"!", "-"}, a \in Atoms}
    \cup {BinaryOp(op, p[1], p[2]) : op \in BinarySymbols, p \in OperandPairs}
    \cup {Assignment(x_name, a) : a \in Atoms}
    \cup {FunctionCall(PRINT_NAME, <<a>>) : a \in Atoms}
    \cup {FunctionCall(PRINT_NAME, <<BinaryOp(op, One, Str)>>) : op \in {"<", "==", "+"}}
    \cup {FunctionCall(f_name, args) : args \in Ones}
    \cup {ArrayLiteral(elems) : elems \in Ones}
    \cup {IndexAccess(ArrayLiteral(<<One>>), i) : i \in {Zero, One, Str}}
    \cup {IndexAccess(X, Zero)}

Bodies ==
    {Block(<< >>), Block(<<FunctionCall(f_name, <<One, One>>)>>),
     Block(<<VariableDecl(x_name, Zero)>>), Block(<<Assignment(x_name, Zero)>>)}

Conditions == {X, True, BinaryOp("<", X, One)}

Statements ==
    Expressions
    \cup {VariableDecl(x_name, a) : a \in Atoms \cup {NullNode, ArrayLiteral(<<One>>)}}
    \cup {IfStatement(c, b, e) : c \in Conditions, b \in {Block(<< >>), Block(<<X>>)},
                                 e \in {NullNode, Block(<<One>>)}}
    \cup {WhileLoop(c, b) : c \in Conditions, b \in Bodies}
    \cup {ForLoop(i, c, n, Block(<< >>)) :
            i \in {NullNode, VariableDecl(x_name, One)}, c \in {NullNode, X},
            n \in {NullNode, Assignment(x_name, Zero)}}
    \cup {FunctionDef(f_name, <<x_name>>, Block(<<X>>)), Block(<<X, One>>)}
    \cup {SwitchCase(X, << >>, d) : d \in {NullNode, Block(<<PrintCall(One)>>)}}

\* what a first statement can leave behind: a variable, a value on the stack
Prefixes ==
    {VariableDecl(x_name, One), FunctionCall(f_name, <<One, One>>),
     FunctionDef(f_name, <<x_name>>, Block(<<X>>))}

\* the sequence s, s, ..., s of length n
RECURSIVE Repeat(_, _)
Repeat(s, n) ==
    IF n = 0 THEN << >>
    ELSE IF n = 1 THEN <<s>>
    ELSE LET half == Repeat(s, n \div 2)
         IN  IF n % 2 = 0 THEN half \o half ELSE half \o half \o <<s>>

\* while (x) { x; x; ... x; -"x"; }
LongLoop ==
    Block(<<WhileLoop(X, Block(Repeat(X, LongBodyStatements) \o <<UnaryOp("-", Str)>>))>>)

VarName(i) ==
    <<"v", Digits[((i \div 100) % 10) + 1], Digits[((i \div 10) % 10) + 1], Digits[(i % 10) + 1]>>

\* var v001 = 1; var v002 = 1; ...
RECURSIVE Decls(_, _)
Decls(lo, hi) ==
    IF lo > hi THEN << >>
    ELSE IF lo = hi THEN <<VariableDecl(VarName(lo), One)>>
    ELSE Decls(lo, (lo + hi) \div 2) \o Decls(((lo + hi) \div 2) + 1, hi)

ManyDecls == Block(Decls(1, ManyDeclarations))

Seven == Literal("TOKEN_NUMBER", <<"7">>)

\* var v001 = 1; ... (2^8 declarations); print(7);
ManyLiterals == Block(Decls(1, ManyDeclarations - 1) \o <<FunctionCall(PRINT_NAME, <<Seven>>)>>)

Half == Literal("TOKEN_NUMBER", <<"0", ".", "5">>)

NEquals == Literal("TOKEN_STRING", <<"n", "=">>)

\* an operand of every tag an expression can evaluate to
Operands == {Seven, Half, NEquals, Str, True, Null, ArrayLiteral(<<One>>)}

\* var x = v; print(x == x);
EqualityPrograms ==
    {Block(<<VariableDecl(x_name, v), PrintCall(BinaryOp("==", X, X))>>) : v \in Operands}

\* print(a + b);  and  print(a);
AddPrograms ==
    {Block(<<PrintCall(BinaryOp("+", a, b))>>) : a \in Operands, b \in Operands}
    \cup {Block(<<PrintCall(a)>>) : a \in Operands}

\* import "p"; print(7);  for a unit, a unit that imports, a rejected file and a
\* missing one; an import inside an if; an import between two statements
ImportPrograms ==
    {Block(<<Import(path), PrintCall(Seven)>>) :
        path \in {"a.ember", "b.ember", "bad.ember", "missing.ember"}}
    \cup {Block(<<IfStatement(True, Block(<<Import("b.ember")>>), NullNode), PrintCall(Seven)>>),
          Block(<<VariableDecl(x_name, One), Import("a.ember"), PrintCall(Seven)>>)}

Two == Literal("TOKEN_NUMBER", <<"2">>)

\* array literals of 0..MaxArgs elements, and literals whose elements are an
\* array literal or an assignment
ArrayLiterals ==
    {ArrayLiteral(elems) : elems \in UNION {[1..n -> {Seven, Str, Null}] : n \in 0..MaxArgs}}
    \cup {ArrayLiteral(<<ArrayLiteral(<<One>>), Seven>>),
          ArrayLiteral(<<ArrayLiteral(<<One, Seven>>)>>),
          ArrayLiteral(<<Assignment(x_name, One)>>)}

\* print(literal[i]);  for i = -1, 0, 1, 2
ArrayPrograms ==
    {Block(<<PrintCall(IndexAccess(a, i))>>) :
        a \in ArrayLiterals, i \in {UnaryOp("-", One), Zero, One, Two}}

False == Literal("TOKEN_BOOLEAN", <<"f", "a", "l", "s", "e">>)

EmptyStr == Literal("TOKEN_STRING", << >>)

Three == Literal("TOKEN_NUMBER", <<"3">>)

\* a condition of every tag, truthy and falsy
BranchConditions == {True, False, Zero, One, Half, Str, EmptyStr, Null, ArrayLiteral(<< >>)}

\* if (c) print(1);  with no else, with else print(2); and with
\* else if (d) print(2); else print(3);  each followed by print(7);
IfPrograms ==
    {Block(<<IfStatement(c, Block(<<PrintCall(One)>>), e), PrintCall(Seven)>>) :
        c \in BranchConditions,
        e \in {NullNode, Block(<<PrintCall(Two)>>)}
               \cup {IfStatement(d, Block(<<PrintCall(Two)>>), Block(<<PrintCall(Three)>>)) :
                        d \in {True, Zero, EmptyStr}}}

\* the most iterations of the counting loops
MaxIterations == 3

Num(k) == Literal("TOKEN_NUMBER", <<Digits[k + 1]>>)

\* var x = k; while (x) { print(x); x = x - 1; } print(7);
WhileCount(k) ==
    Block(<<VariableDecl(x_name, Num(k)),
            WhileLoop(X, Block(<<PrintCall(X), Assignment(x_name, BinaryOp("-", X, One))>>)),
            PrintCall(Seven)>>)

\* for (var x = 0; x < k; x = x + 1) { print(x); } print(7);
ForCount(k) ==
    Block(<<ForLoop(VariableDecl(x_name, Zero), BinaryOp("<", X, Num(k)),
                    Assignment(x_name, BinaryOp("+", X, One)), Block(<<PrintCall(X)>>)),
            PrintCall(Seven)>>)

\* var x = v; while (x) { print(1); x = 0; } print(7);
WhileOnce(v) ==
    Block(<<VariableDecl(x_name, v),
            WhileLoop(X, Block(<<PrintCall(One), Assignment(x_name, Zero)>>)),
            PrintCall(Seven)>>)

LoopPrograms ==
    {WhileCount(k) : k \in 0..MaxIterations}
    \cup {ForCount(k) : k \in 0..MaxIterations}
    \cup {WhileOnce(v) : v \in BranchConditions}

y_name == <<"y">>

\* var x; print(x);   var x = null; print(x);   x = null; print(x);
\* var x = y = 1; print(x);
NullPrograms ==
    {Block(<<VariableDecl(x_name, NullNode), PrintCall(X)>>),
     Block(<<VariableDecl(x_name, Null), PrintCall(X)>>),
     Block(<<Assignment(x_name, Null), PrintCall(X)>>),
     Block(<<VariableDecl(x_name, Assignment(y_name, One)), PrintCall(X)>>)}

Programs ==
    {Block(<<s>>) : s \in Statements}
    \cup {Block(<<p, s>>) : p \in Prefixes, s \in Statements}
    \cup {LongLoop, ManyDecls}
    \cup EqualityPrograms \cup AddPrograms \cup ImportPrograms \cup ArrayPrograms
    \cup IfPrograms \cup LoopPrograms \cup {ManyLiterals} \cup NullPrograms


(***************************************************************************)
(* The driver (main.c) as a state machine: `compile` writes the bytecode   *)
(* file of a program, `run` (a new process, so g_globals is all zero)      *)
(* reads it and runs it, one instruction of vm_run per step.               *)
(*                                                                         *)
(*   pc            "start", "compiled", "running" or "done"                *)
(*   ast           the program compiled                                    *)
(*   cs            the chunk and symbol table compile_ast filled           *)
(*   file          the bytes of the bytecode file                          *)
(*   vm            the machine of the run (NoVM before vm_create)          *)
(*   exit_status   the exit codes of the two processes, << >> = not exited *)
(*   steps         the instructions executed                               *)
(*   operand_order how this build evaluates the unsequenced operand reads  *)
(*   stmt_bounds   the code offset where each top-level statement ends     *)
(*   depth_log     the stack depths observed at those offsets              *)
(*   lexer         the Lexer of a tokenization (used by SpecLexer only)    *)
(*   tokens        the tokens lexer_next_token has returned so far         *)
(*   parser        the Parser of a parse (used by SpecParser only)         *)
(***************************************************************************)
VARIABLES pc, ast, cs, file, vm, exit_status, steps, operand_order, stmt_bounds, depth_log,
          lexer, tokens, parser

vars == <<pc, ast, cs, file, vm, exit_status, steps, operand_order, stmt_bounds, depth_log,
          lexer, tokens, parser>>

NoParser == parser_create(lexer_init(<< >>))

\* the instructions a run may execute before the model stops following it
MaxSteps == 2000

\* the largest constant pool of the chunks handed to write_chunk directly
MaxConstants == 2

NoVM == [vm_create(vm_create_chunk, << >>) EXCEPT !.state = "none"]

EmptyState ==
    [code |-> << >>, constants |-> << >>, symtab |-> symbol_table_create, errors |-> << >>]

\* stmt_bounds[k + 1], for k in 0..n: the offset where top-level statement k ends
\* and statement k + 1 starts (0 for k = 0; the offset of OP_EOF for k = n)
statement_bounds(root, final) ==
    LET n == Len(root.statements)
    IN  [j \in 1..(n + 1) |->
            IF j = n + 1 THEN Len(final.code) - 1
            ELSE Len(compile_block(root.statements, 1, j - 1, EmptyState).code)]

\* the offset where the value of the expression of top-level statement k is on the
\* stack: before the OP_POP of an expression statement, before the OP_STORE_VAR of
\* a declaration with an initializer; -1 for the other statements
expression_end(root, bounds, k) ==
    LET node == root.statements[k]
    IN  IF node.type \in ExpressionNodeTypes THEN bounds[k + 1] - 1
        ELSE IF node.type = "AST_VARIABLE_DECL" /\ node.initial_value.type # "NULL"
             THEN bounds[k + 1] - 2
        ELSE 0 - 1

\* the log after the machine m reached its ip: the first visit of each point
observe(log, root, bounds, m) ==
    LET n      == Len(root.statements)
        seen   == {<<e.point, e.stmt>> : e \in log}
        entry(point, k) ==
            [point |-> point, stmt |-> k, depth |-> Len(m.stack), errors |-> Len(m.stderr)]
        starts == {entry("start", k) : k \in {j \in 1..n : bounds[j] = m.ip}}
        ends   == {entry("end", k) : k \in {j \in 1..n : bounds[j + 1] = m.ip}}
        exprs  == {entry("expr", k) :
                     k \in {j \in 1..n : expression_end(root, bounds, j) = m.ip}}
    IN  log \cup {e \in starts \cup ends \cup exprs : <<e.point, e.stmt>> \notin seen}

Init ==
    /\ pc = "start"
    /\ ast = NullNode
    /\ cs = EmptyState
    /\ file = << >>
    /\ vm = NoVM
    /\ exit_status = [compile |-> << >>, run |-> << >>]
    /\ steps = 0
    /\ operand_order \in {"hi_lo", "lo_hi"}
    /\ stmt_bounds = << >>
    /\ depth_log = {}
    /\ lexer = lexer_init(<< >>)
    /\ tokens = << >>
    /\ parser = NoParser

\* main, "compile": compile_ember_source and write_chunk
MainCompile ==
    /\ pc = "start"
    /\ \E program \in Programs :
        LET compiled == compile_ast(program, EmptyState)
            written  == write_chunk(compiled.cs)
        IN  /\ ast' = program
            /\ cs' = compiled.cs
            /\ IF compiled.ok
               THEN /\ file' = written.file
                    /\ exit_status' = [exit_status EXCEPT !.compile = <<written.status>>]
                    /\ pc' = "compiled"
               ELSE /\ file' = file
                    /\ exit_status' = [exit_status EXCEPT !.compile = <<1>>]
                    /\ pc' = "done"
            /\ stmt_bounds' = statement_bounds(program, compiled.cs)
    /\ UNCHANGED <<parser, lexer, tokens, vm, steps, operand_order, depth_log>>

\* main, "run", up to the call of vm_run
MainRun ==
    /\ pc = "compiled"
    /\ LET chunk == read_chunk(file)
       IN  IF IsNoChunk(chunk)
           THEN /\ exit_status' = [exit_status EXCEPT !.run = <<1>>]
                /\ pc' = "done"
                /\ vm' = vm
           ELSE /\ vm' = vm_create(chunk, << >>)
                /\ pc' = "running"
                /\ exit_status' = exit_status
    /\ UNCHANGED <<parser, lexer, tokens, ast, cs, file, steps, operand_order, stmt_bounds, depth_log>>

\* one instruction of vm_run; when vm_run returns, main returns its status
VmRunStep ==
    /\ pc = "running"
    /\ steps < MaxSteps
    /\ LET next == vm_step(vm, operand_order)
       IN  /\ vm' = next
           /\ pc' = IF next.state = "running" THEN "running" ELSE "done"
           /\ exit_status' = IF next.state = "returned"
                             THEN [exit_status EXCEPT !.run = <<next.status>>]
                             ELSE exit_status
    /\ steps' = steps + 1
    /\ depth_log' = IF ast.type = "AST_BLOCK"
                    THEN observe(depth_log, ast, stmt_bounds, vm)
                    ELSE depth_log
    /\ UNCHANGED <<parser, lexer, tokens, ast, cs, file, operand_order, stmt_bounds>>

Next == MainCompile \/ MainRun \/ VmRunStep

Spec == Init /\ [][Next]_vars


(***************************************************************************)
(* write_chunk and read_chunk on the chunks a caller can build: any        *)
(* constant pool, constants of the types the file format does not carry    *)
(* included.                                                               *)
(***************************************************************************)
ConstantValues ==
    {NumberValue(1), Rat(1, 2), NumberValue(0 - 3),
     StringValue(<< >>), StringValue(<<"x">>), StringValue(<<"a", "\"", " ", "~">>),
     BooleanValue(TRUE), BooleanValue(FALSE), NullValue,
     ArrayValue(<< >>), [type |-> "RUNTIME_VALUE_OBJECT"], [type |-> "RUNTIME_VALUE_FUNCTION"]}

ConstantPools == UNION {[1..n -> ConstantValues] : n \in 0..MaxConstants}

\* code that prints the first constant, if there is one
PoolCode(constants) ==
    IF constants = << >> THEN <<OpCode.OP_EOF>>
    ELSE <<OpCode.OP_LOAD_CONST, 0, OpCode.OP_PRINT, OpCode.OP_EOF>>

InitChunkIO ==
    /\ pc = "start"
    /\ ast = NullNode
    /\ \E constants \in ConstantPools :
          cs = [EmptyState EXCEPT !.code = PoolCode(constants), !.constants = constants]
    /\ file = << >>
    /\ vm = NoVM
    /\ exit_status = [compile |-> << >>, run |-> << >>]
    /\ steps = 0
    /\ operand_order \in {"hi_lo", "lo_hi"}
    /\ stmt_bounds = << >>
    /\ depth_log = {}
    /\ lexer = lexer_init(<< >>)
    /\ tokens = << >>
    /\ parser = NoParser

\* write_chunk, and the exit of main with its status
WriteChunk ==
    /\ pc = "start"
    /\ LET written == write_chunk(cs)
       IN  /\ file' = written.file
           /\ exit_status' = [exit_status EXCEPT !.compile = <<written.status>>]
    /\ pc' = "compiled"
    /\ UNCHANGED <<parser, lexer, tokens, ast, cs, vm, steps, operand_order, stmt_bounds, depth_log>>

NextChunkIO == WriteChunk \/ MainRun \/ VmRunStep

SpecChunkIO == InitChunkIO /\ [][NextChunkIO]_vars


(***************************************************************************)
(* The run command on bytecode files that were assembled by hand: the      *)
(* machine executes whatever opcodes the file holds, those the compiler    *)
(* never emits (OP_MOD, OP_AND, OP_OR) included.                           *)
(***************************************************************************)
Dividends == {NumberValue(7), Rat(1, 2), NumberValue(0), NumberValue(0 - 3)}

Divisors == {NumberValue(0), NumberValue(2), Rat(1, 2)}

\* print(1); print(a op b);
DivisionChunks ==
    {[code |-> <<OpCode.OP_LOAD_CONST, 0, OpCode.OP_PRINT,
                 OpCode.OP_LOAD_CONST, 1, OpCode.OP_LOAD_CONST, 2, op,
                 OpCode.OP_PRINT, OpCode.OP_EOF>>,
      constants |-> <<NumberValue(1), a, b>>] :
        op \in {OpCode.OP_DIV, OpCode.OP_MOD}, a \in Dividends, b \in Divisors}

\* a constant of every tag the file format carries, falsy and truthy
ConditionConstants ==
    {BooleanValue(TRUE), BooleanValue(FALSE), NumberValue(0), NumberValue(1), Rat(1, 2),
     StringValue(<< >>), StringValue(<<"x">>), StringValue(<<"0">>), NullValue}

\* if (v) print(1); print(!v);  with v a constant, [] or [1]
TruthinessChunks ==
    LET test(push, constants) ==
            [code |-> push \o <<OpCode.OP_JUMP_IF_FALSE, 0, 3, OpCode.OP_LOAD_CONST, 1,
                                OpCode.OP_PRINT>>
                           \o push \o <<OpCode.OP_NOT, OpCode.OP_PRINT, OpCode.OP_EOF>>,
             constants |-> constants]
    IN  {test(<<OpCode.OP_LOAD_CONST, 0>>, <<v, NumberValue(1)>>) : v \in ConditionConstants}
        \cup {test(<<OpCode.OP_NEW_ARRAY>>, <<NullValue, NumberValue(1)>>),
              test(<<OpCode.OP_NEW_ARRAY, OpCode.OP_LOAD_CONST, 1, OpCode.OP_ARRAY_PUSH>>,
                   <<NullValue, NumberValue(1)>>)}

\* files that pop an empty stack and push onto a full one: a pop, then one
\* value duplicated until the stack holds stack_capacity values and once
\* more; a swap of a single value; an addition on the empty stack
StackChunks ==
    {[code |-> <<OpCode.OP_POP, OpCode.OP_LOAD_CONST, 0>>
                   \o Repeat(OpCode.OP_DUP, stack_capacity)
                   \o <<OpCode.OP_LOAD_CONST, 0, OpCode.OP_POP, OpCode.OP_EOF>>,
      constants |-> <<NumberValue(1)>>],
     [code |-> <<OpCode.OP_LOAD_CONST, 0, OpCode.OP_SWAP, OpCode.OP_PRINT,
                 OpCode.OP_PRINT, OpCode.OP_PRINT, OpCode.OP_EOF>>,
      constants |-> <<NumberValue(1)>>],
     [code |-> <<OpCode.OP_ADD, OpCode.OP_DUP, OpCode.OP_EOF>>,
      constants |-> << >>]}

Bytecodes == DivisionChunks \cup TruthinessChunks \cup StackChunks

InitBytecode ==
    /\ pc = "start"
    /\ ast = NullNode
    /\ \E chunk \in Bytecodes :
          cs = [EmptyState EXCEPT !.code = chunk.code, !.constants = chunk.constants]
    /\ file = << >>
    /\ vm = NoVM
    /\ exit_status = [compile |-> << >>, run |-> << >>]
    /\ steps = 0
    /\ operand_order \in {"hi_lo", "lo_hi"}
    /\ stmt_bounds = << >>
    /\ depth_log = {}
    /\ lexer = lexer_init(<< >>)
    /\ tokens = << >>
    /\ parser = NoParser

SpecBytecode == InitBytecode /\ [][NextChunkIO]_vars

(***************************************************************************)
(* A host process that uses the machine as a library (virtual_machine.h):  *)
(* it creates a machine for a compiled program, runs it, frees it, and     *)
(* does so again.  g_globals is a static array of the library, so each     *)
(* machine finds in it what the machines before it in this process left.   *)
(* steps counts the instructions of the current machine; stdout and stderr *)
(* are kept per machine.                                                   *)
(***************************************************************************)
\* var x = 1;   print(x);   x = "x"; print(x);   var x = [1];   print(1);
HostPrograms ==
    {Block(<<VariableDecl(x_name, One)>>),
     Block(<<PrintCall(X)>>),
     Block(<<Assignment(x_name, Str), PrintCall(X)>>),
     Block(<<VariableDecl(x_name, ArrayLiteral(<<One>>))>>),
     Block(<<PrintCall(One)>>)}

\* the array buffers the machines of the host process may have allocated
\* when the model stops creating machines
MaxBuffers == 3

\* vm_free of the machine that has run, if any, then vm_create
VmCreate ==
    /\ pc \in {"start", "done"}
    /\ vm.allocated < MaxBuffers
    /\ \E program \in HostPrograms :
        LET compiled == compile_ast(program, EmptyState)
        IN  /\ ast' = program
            /\ cs' = compiled.cs
            /\ stmt_bounds' = statement_bounds(program, compiled.cs)
            /\ vm' = [vm_create([code |-> compiled.cs.code,
                                 constants |-> compiled.cs.constants], vm.g_globals)
                         EXCEPT !.allocated = vm.allocated, !.freed = vm.freed]
    /\ pc' = "running"
    /\ steps' = 0
    /\ depth_log' = {}
    /\ UNCHANGED <<parser, lexer, tokens, file, exit_status, operand_order>>

NextOneProcess == VmCreate \/ VmRunStep

SpecOneProcess == Init /\ [][NextOneProcess]_vars


(***************************************************************************)
(* One symbol table through a compilation: calls of                        *)
(* symbol_table_get_or_add, and imports compiled into the same chunk and   *)
(* table.  steps counts the calls.                                         *)
(***************************************************************************)
\* the calls made on one table
MaxCalls == 4

SymbolNames == {<<"x">>, <<"f">>, <<"y">>}

SymbolTableGetOrAdd ==
    /\ pc = "start"
    /\ steps < MaxCalls
    /\ \E name \in SymbolNames, isFunction \in BOOLEAN :
          cs' = [cs EXCEPT !.symtab =
                    symbol_table_get_or_add(cs.symtab, name, isFunction).table]
    /\ steps' = steps + 1
    /\ UNCHANGED <<parser, lexer, tokens, pc, ast, file, vm, exit_status, operand_order, stmt_bounds, depth_log>>

\* compile_node of an import statement, on the chunk and table so far
CompileImport ==
    /\ pc = "start"
    /\ steps < MaxCalls
    /\ \E path \in DOMAIN SourceFiles : cs' = compile_node(Import(path), cs)
    /\ steps' = steps + 1
    /\ UNCHANGED <<parser, lexer, tokens, pc, ast, file, vm, exit_status, operand_order, stmt_bounds, depth_log>>

NextSymbols == SymbolTableGetOrAdd \/ CompileImport

SpecSymbols == Init /\ [][NextSymbols]_vars


(***************************************************************************)
(* Tokenization: lexer_init on a source, then lexer_next_token until it    *)
(* returns TOKEN_EOF.                                                      *)
(***************************************************************************)
\* the longest source of the exhaustive families
MaxSourceLen == 5

AllSources(alphabet) == UNION {[1..n -> alphabet] : n \in 0..MaxSourceLen}

\* whitespace, comment delimiters, a letter and a quote, in every arrangement
CommentSources == AllSources({"a", " ", "\n", "/", "*", "\""})

\* an opening quote and every arrangement of quotes, backslashes, the escape
\* letters and a letter that is no escape
StringSources ==
    {<<"\"">> \o rest \o tail : rest \in AllSources({"\"", "\\", "n", "t", "q"}),
                                 tail \in {<< >>, <<"\"", "\\", "q", "\"">>}}

Words ==
    keywords \cup
    {<<"x">>, <<"i", "f", "f">>, <<"n", "u", "l">>, <<"t", "r", "u", "e", "x">>,
     <<"_", "i", "f">>, <<"i", "f", "1">>, <<"T", "r", "u", "e">>, <<"N", "U", "L", "L">>,
     <<"s", "w", "i", "t", "c", "h">>, <<"i", "m", "p", "o", "r", "t">>,
     <<"f", "a", "l", "s", "e", "_">>, <<"e", "l", "s", "e", "i", "f">>}

\* a word;  a word between a space and a semicolon;  two words; a word and a number
WordSources ==
    Words
    \cup {<<" ">> \o w \o <<";">> : w \in Words}
    \cup {w \o <<" ">> \o v : w \in Words, v \in {<<"i", "f">>, <<"x">>}}
    \cup {w \o <<"(", "1", ".", "5", ")">> : w \in Words}

\* the longest source of the operator family
MaxOperatorLen == 3

\* every arrangement of the operator characters, a space and a letter
OperatorSources ==
    UNION {[1..n -> {"=", "!", "<", ">", "&", "|", "+", "-", "*", "/", "%", " ", "a"}] :
             n \in 0..MaxOperatorLen}

\* every arrangement of two digits and the decimal point
NumberSources == AllSources({"1", "2", "."})

\* every arrangement of characters that start no token, a letter and a semicolon
UnknownSources ==
    UNION {[1..n -> {"@", "#", ":", "a", ";"}] : n \in 0..MaxOperatorLen}

Sources ==
    CommentSources \cup StringSources \cup WordSources \cup OperatorSources
    \cup NumberSources \cup UnknownSources

InitLexer ==
    /\ pc = "start"
    /\ ast = NullNode
    /\ cs = EmptyState
    /\ file = << >>
    /\ vm = NoVM
    /\ exit_status = [compile |-> << >>, run |-> << >>]
    /\ steps = 0
    /\ operand_order = "hi_lo"
    /\ stmt_bounds = << >>
    /\ depth_log = {}
    /\ \E source \in Sources : lexer = lexer_init(source)
    /\ tokens = << >>
    /\ parser = NoParser

Tokenized == tokens # << >> /\ tokens[Len(tokens)].type = "TOKEN_EOF"

LexerNextToken ==
    /\ ~Tokenized
    /\ LET r == lexer_next_token(lexer)
       IN  /\ lexer' = r.lexer
           /\ tokens' = Append(tokens, r.token)
    /\ UNCHANGED <<pc, ast, cs, file, vm, exit_status, steps, operand_order,
                   stmt_bounds, depth_log, parser>>

\* the tokens of a source: lexer_next_token until TOKEN_EOF, as [type, value]
RECURSIVE Drain(_)
Drain(lx) ==
    LET r == lexer_next_token(lx)
        t == <<[type |-> r.token.type, value |-> r.token.value]>>
    IN  IF r.token.type = "TOKEN_EOF" THEN t ELSE t \o Drain(r.lexer)

Tokenize(source) == Drain(lexer_init(source))

NextLexer == LexerNextToken

SpecLexer == InitLexer /\ [][NextLexer]_vars

\* The caller (parser_advance after parser_advance, or a loop until
\* TOKEN_EOF) goes on calling lexer_next_token while no EOF has come back.
MaxLiveLen == 3

\* every arrangement of the characters that open and close comments and
\* strings and an unknown character; sources that end in a backslash, in an
\* escape, in blanks
TerminationSources ==
    UNION {[1..n -> {"/", "*", "\"", "@"}] : n \in 0..MaxLiveLen}
    \cup {<<"\"", "\\">>, <<"\"", "\\", "n">>, <<"\"", "\\", "\"">>,
          <<"\"", "\\", "n", "\"", " ">>, <<" ", "@", " ">>, <<"/", "*", " ", "*">>,
          <<"a", " ", "1", ".", " ">>}

\* before lexer_init: no source yet
InitLexerLive ==
    /\ pc = "start"
    /\ ast = NullNode
    /\ cs = EmptyState
    /\ file = << >>
    /\ vm = NoVM
    /\ exit_status = [compile |-> << >>, run |-> << >>]
    /\ steps = 0
    /\ operand_order = "hi_lo"
    /\ stmt_bounds = << >>
    /\ depth_log = {}
    /\ lexer = lexer_init(<< >>)
    /\ tokens = << >>
    /\ parser = NoParser

\* lexer_init on the source the caller read
LexerInit ==
    /\ pc = "start"
    /\ \E source \in TerminationSources : lexer' = lexer_init(source)
    /\ pc' = "lexing"
    /\ UNCHANGED <<ast, cs, file, vm, exit_status, steps, operand_order,
                   stmt_bounds, depth_log, tokens, parser>>

\* the calls of lexer_next_token after it
LexerLoop == pc = "lexing" /\ LexerNextToken

NextLexerLive == LexerInit \/ LexerLoop

\* ENABLED <<LexerLoop>>_tokens, written out: a call is due
TokenCallDue == pc = "lexing" /\ ~Tokenized

\* weak fairness of both steps; for the loop it is spelled out with
\* TokenCallDue in the place of ENABLED <<LexerLoop>>_tokens:
\* WF_tokens(LexerLoop) is []<>~ENABLED <<LexerLoop>>_tokens \/ []<><<LexerLoop>>_tokens
SpecLexerLive ==
    /\ InitLexerLive /\ [][NextLexerLive]_vars
    /\ WF_pc(LexerInit)
    /\ ([]<>~TokenCallDue \/ []<><<LexerLoop>>_tokens)


(***************************************************************************)
(* Parsing: parser_create on the lexer of a source, then parse_script, one *)
(* top-level statement per step.  pc is "start", "parsing" or "parsed";    *)
(* ast is the root block so far, NullNode once parse_script returned NULL. *)
(***************************************************************************)
\* the longest source of the exhaustive expression family
MaxStatementLen == 5

\* every arrangement of a number, a name, two operators, parentheses and a semicolon
ExpressionSources ==
    UNION {[1..n -> {"1", "x", "+", "=", "(", ")", ";"}] : n \in 0..MaxStatementLen}

\* a declaration keyword (or a name that is none), a name, an initializer, an end
DeclarationSources ==
    {keyword \o <<" ">> \o name \o init \o end :
        keyword \in DeclarationKeywords \cup {<<"v", "a", "l">>},
        name \in {<<"x">>, <<"1">>, << >>},
        init \in {<< >>, <<" ", "=", " ", "1">>, <<"=", "1", "+", "x">>, <<"=">>},
        end \in {<<";">>, << >>, <<";", "x", ";">>}}

StatementTexts ==
    {\* if (x) { x; }
     <<"i", "f", " ", "(", "x", ")", " ", "{", " ", "x", ";", " ", "}">>,
     \* if (x) { } else { 1; }
     <<"i", "f", " ", "(", "x", ")", " ", "{", " ", "}", " ", "e", "l", "s", "e", " ", "{", " ", "1", ";", " ", "}">>,
     \* if (x) { } else if (1) { }
     <<"i", "f", " ", "(", "x", ")", " ", "{", " ", "}", " ", "e", "l", "s", "e", " ", "i", "f", " ", "(", "1", ")", " ", "{", " ", "}">>,
     \* if x { }
     <<"i", "f", " ", "x", " ", "{", " ", "}">>,
     \* if (x) x;
     <<"i", "f", " ", "(", "x", ")", " ", "x", ";">>,
     \* while (x) { x = 1; }
     <<"w", "h", "i", "l", "e", " ", "(", "x", ")", " ", "{", " ", "x", " ", "=", " ", "1", ";", " ", "}">>,
     \* while (x) x;
     <<"w", "h", "i", "l", "e", " ", "(", "x", ")", " ", "x", ";">>,
     \* for (var i = 0; i < 2; i = i + 1) { }
     <<"f", "o", "r", " ", "(", "v", "a", "r", " ", "i", " ", "=", " ", "0", ";", " ", "i", " ", "<", " ", "2", ";", " ", "i", " ", "=", " ", "i", " ", "+", " ", "1", ")", " ", "{", " ", "}">>,
     \* for (let i = 0;;) { }
     <<"f", "o", "r", " ", "(", "l", "e", "t", " ", "i", " ", "=", " ", "0", ";", ";", ")", " ", "{", " ", "}">>,
     \* for (;;) { }
     <<"f", "o", "r", " ", "(", ";", ";", ")", " ", "{", " ", "}">>,
     \* for (var;;) { }
     <<"f", "o", "r", " ", "(", "v", "a", "r", ";", ";", ")", " ", "{", " ", "}">>,
     \* for (x = 0; x; ) { x; }
     <<"f", "o", "r", " ", "(", "x", " ", "=", " ", "0", ";", " ", "x", ";", " ", ")", " ", "{", " ", "x", ";", " ", "}">>,
     \* function f(a, b) { a; }
     <<"f", "u", "n", "c", "t", "i", "o", "n", " ", "f", "(", "a", ",", " ", "b", ")", " ", "{", " ", "a", ";", " ", "}">>,
     \* function f() { }
     <<"f", "u", "n", "c", "t", "i", "o", "n", " ", "f", "(", ")", " ", "{", " ", "}">>,
     \* function (a) { }
     <<"f", "u", "n", "c", "t", "i", "o", "n", " ", "(", "a", ")", " ", "{", " ", "}">>,
     \* function f(a,) { }
     <<"f", "u", "n", "c", "t", "i", "o", "n", " ", "f", "(", "a", ",", ")", " ", "{", " ", "}">>,
     \* { x; }
     <<"{", " ", "x", ";", " ", "}">>,
     \* { x; 
     <<"{", " ", "x", ";", " ">>,
     \* f(1, x);
     <<"f", "(", "1", ",", " ", "x", ")", ";">>,
     \* f();
     <<"f", "(", ")", ";">>,
     \* f(1,);
     <<"f", "(", "1", ",", ")", ";">>,
     \* [1, 2][0];
     <<"[", "1", ",", " ", "2", "]", "[", "0", "]", ";">>,
     \* [];
     <<"[", "]", ";">>,
     \* [1,];
     <<"[", "1", ",", "]", ";">>,
     \* x[0][1];
     <<"x", "[", "0", "]", "[", "1", "]", ";">>,
     \* -x;
     <<"-", "x", ";">>,
     \* !x;
     <<"!", "x", ";">>,
     \* - ;
     <<"-", " ", ";">>,
     \* "s";
     <<"\"", "s", "\"", ";">>,
     \* true;
     <<"t", "r", "u", "e", ";">>,
     \* null;
     <<"n", "u", "l", "l", ";">>,
     \* @;
     <<"@", ";">>,
     \* x = ;
     <<"x", " ", "=", " ", ";">>,
     \* x y;
     <<"x", " ", "y", ";">>,
     \* 1 && x || 2;
     <<"1", " ", "&", "&", " ", "x", " ", "|", "|", " ", "2", ";">>,
     \* 1 < 2 == true;
     <<"1", " ", "<", " ", "2", " ", "=", "=", " ", "t", "r", "u", "e", ";">>,
     \* x % 2;
     <<"x", " ", "%", " ", "2", ";">>,
     \* var x = [1];
     <<"v", "a", "r", " ", "x", " ", "=", " ", "[", "1", "]", ";">>,
     \* (1 + x) * 2;
     <<"(", "1", " ", "+", " ", "x", ")", " ", "*", " ", "2", ";">>,
     \* (1;
     <<"(", "1", ";">>,
     \* x; y;
     <<"x", ";", " ", "y", ";">>,
     \* x; @ y; z;
     <<"x", ";", " ", "@", " ", "y", ";", " ", "z", ";">>,
     \* 1 + 2 * 3;
     <<"1", " ", "+", " ", "2", " ", "*", " ", "3", ";">>,
     \* 1 * 2 + 3;
     <<"1", " ", "*", " ", "2", " ", "+", " ", "3", ";">>,
     \* 1 - 2 - 3;
     <<"1", " ", "-", " ", "2", " ", "-", " ", "3", ";">>,
     \* x = y = 2;
     <<"x", " ", "=", " ", "y", " ", "=", " ", "2", ";">>,
     \* x[0] = 1;
     <<"x", "[", "0", "]", " ", "=", " ", "1", ";">>,
     \* f(x) = 1;
     <<"f", "(", "x", ")", " ", "=", " ", "1", ";">>,
     \* 1 + x = 2;
     <<"1", " ", "+", " ", "x", " ", "=", " ", "2", ";">>,
     \* x * y = 2 + 3;
     <<"x", " ", "*", " ", "y", " ", "=", " ", "2", " ", "+", " ", "3", ";">>,
     \* 1 = 2;
     <<"1", " ", "=", " ", "2", ";">>,
     \* -x = 1;
     <<"-", "x", " ", "=", " ", "1", ";">>,
     \* let y = 1 + x = 2;
     <<"l", "e", "t", " ", "y", " ", "=", " ", "1", " ", "+", " ", "x", " ", "=", " ", "2", ";">>}

ParserSources == ExpressionSources \cup DeclarationSources \cup StatementTexts

InitParser ==
    /\ pc = "start"
    /\ ast = NullNode
    /\ cs = EmptyState
    /\ file = << >>
    /\ vm = NoVM
    /\ exit_status = [compile |-> << >>, run |-> << >>]
    /\ steps = 0
    /\ operand_order = "hi_lo"
    /\ stmt_bounds = << >>
    /\ depth_log = {}
    /\ \E source \in ParserSources : lexer = lexer_init(source)
    /\ tokens = << >>
    /\ parser = NoParser

\* parser_create(&lexer) and the start of parse_script
ParserCreate ==
    /\ pc = "start"
    /\ parser' = parser_create(lexer)
    /\ ast' = Block(<< >>)
    /\ pc' = "parsing"
    /\ UNCHANGED <<cs, file, vm, exit_status, steps, operand_order, stmt_bounds, depth_log,
                   lexer, tokens>>

\* one test of the while loop of parse_script and, unless the token is
\* TOKEN_EOF, its body
ParseScript ==
    /\ pc = "parsing"
    /\ IF parser.current_token.type = "TOKEN_EOF"
       THEN /\ pc' = "parsed"
            /\ UNCHANGED <<ast, parser>>
       ELSE LET statement == parse_statement(parser)
            IN  IF statement.node = NullNode
                THEN /\ parser' = Stderr(statement.p, "Error: Failed to parse statement")
                     /\ ast' = NullNode
                     /\ pc' = "parsed"
                ELSE /\ parser' = statement.p
                     /\ ast' = Block(Append(ast.statements, statement.node))
                     /\ pc' = "parsing"
    /\ UNCHANGED <<cs, file, vm, exit_status, steps, operand_order, stmt_bounds, depth_log,
                   lexer, tokens>>

NextParser == ParserCreate \/ ParseScript

SpecParser == InitParser /\ [][NextParser]_vars


(***************************************************************************)
(* The instructions of a chunk.                                            *)
(***************************************************************************)
\* the offsets of the (at most k) instructions decoded from offset ip on, and the
\* offset `end` after the last of them; decoded as the first half, then the second
RECURSIVE Disassemble(_, _, _)
Disassemble(code, ip, k) ==
    IF k = 0 \/ ip >= Len(code) THEN [end |-> ip, at |-> << >>]
    ELSE IF k = 1 THEN [end |-> ip + 1 + OperandBytes(At(code, ip)), at |-> <<ip>>]
    ELSE LET first == Disassemble(code, ip, k \div 2)
         IN  IF first.end >= Len(code) THEN first
             ELSE LET second == Disassemble(code, first.end, k - (k \div 2))
                  IN  [end |-> second.end, at |-> first.at \o second.at]

\* the offsets of the instructions of the code, from offset 0
instruction_offsets(code) ==
    LET d == Disassemble(code, 0, Len(code))
    IN  {d.at[i] : i \in 1..Len(d.at)}

\* the 16-bit operand at offsets p + 1 and p + 2, high byte first as emitted
jump_operand(code, p) == At(code, p + 1) * 256 + At(code, p + 2)


(***************************************************************************)
(* Properties.                                                             *)
(***************************************************************************)
HasDiagnostic(m, msg) == \E i \in 1..Len(m.stderr) : m.stderr[i] = msg

Unsupported(constants) ==
    \E i \in 1..Len(constants) : constants[i].type \notin SupportedTypes

\* C1: whenever a top-level statement of a compiled program has finished
\* executing, the operand stack is exactly as deep as it was when that
\* statement started.
C1_StatementsLeaveDepthUnchanged ==
    \A s \in depth_log : \A e \in depth_log :
        (s.point = "start" /\ e.point = "end" /\ e.stmt = s.stmt) => e.depth = s.depth

\* C2: whenever the code of an expression (the expression of an expression
\* statement, the initializer of a declaration) has executed without a runtime
\* diagnostic, the operand stack is exactly one value deeper than before it.
C2_ExpressionsLeaveOneValue ==
    \A s \in depth_log : \A e \in depth_log :
        (s.point = "start" /\ e.point = "expr" /\ e.stmt = s.stmt /\ e.errors = s.errors)
            => e.depth = s.depth + 1

\* C3: a run of compiled code never pops an empty operand stack, that is,
\* vm_pop never reports a stack underflow.
C3_NoPopOfEmptyStack == ~HasDiagnostic(vm, "VM Error: Stack underflow.")

\* C4: once an instruction has pushed onto a full stack or popped an empty
\* one (the diagnostic is on stderr), vm_run has returned a non-zero status:
\* no state of the run has the diagnostic and a machine that goes on.
C4_StackErrorsAbortRun ==
    (HasDiagnostic(vm, "VM Error: Stack overflow.")
         \/ HasDiagnostic(vm, "VM Error: Stack underflow."))
        => vm.state = "returned" /\ vm.status # 0

PrintOneLessThanString == Block(<<FunctionCall(PRINT_NAME, <<BinaryOp("<", One, Str)>>)>>)

\* C5: when the machine is at an OP_LT, OP_GT, OP_LTE or OP_GTE whose operands
\* are not both numbers, executing it makes vm_run return a non-zero status
\* with the operands popped and nothing pushed; and the run of
\* print(1 < "x"); ends with nothing printed and a non-zero exit status.
C5_OrderingRejectsNonNumbers ==
    /\ (/\ pc = "running"
        /\ vm.ip < Len(vm.chunk.code)
        /\ At(vm.chunk.code, vm.ip) \in
              {OpCode.OP_LT, OpCode.OP_GT, OpCode.OP_LTE, OpCode.OP_GTE}
        /\ ~(IsNumber(Top(vm)) /\ IsNumber(Second(vm))))
       => LET next == vm_step(vm, operand_order)
          IN  /\ next.state = "returned"
              /\ next.status # 0
              /\ next.stack = Pop2(vm).stack
    /\ (pc = "done" /\ ast = PrintOneLessThanString)
       => vm.stdout = << >> /\ exit_status.run # <<0>>

\* C6: for a chunk whose constants are all numbers, booleans, nulls or strings,
\* the chunk read_chunk returns from the file write_chunk wrote has the same
\* code, byte for byte, and the same constants, position by position.
C6_WriteReadRoundTrip ==
    (pc \notin {"start", "compiled"} /\ ~Unsupported(cs.constants))
        => /\ vm.state # "none"
           /\ vm.chunk.code = cs.code
           /\ Len(vm.chunk.constants) = Len(cs.constants)
           /\ \A i \in 1..Len(cs.constants) : vm.chunk.constants[i] = cs.constants[i]

C6_Witness ==
    /\ pc = "running"
    /\ ~Unsupported(cs.constants)
    /\ \E i \in 1..Len(cs.constants) : \E j \in 1..Len(cs.constants) :
          /\ IsString(cs.constants[i]) /\ Len(cs.constants[i].string_value) > 1
          /\ IsNumber(cs.constants[j]) /\ cs.constants[j].den > 1
    /\ vm.chunk.constants = cs.constants

\* C7: write_chunk, given a chunk with a constant of type array, object or
\* function, returns a non-zero status.
C7_WriteChunkRejectsUnsupported ==
    (exit_status.compile # << >> /\ Unsupported(cs.constants))
        => exit_status.compile # <<0>>

\* C8: read_chunk returns no chunk for a file with a constant tag outside
\* number, string, boolean and null, and the run then exits non-zero with no
\* VM created and no instruction executed.
C8_UnsupportedTagsRejected ==
    /\ (pc # "start" /\ Unsupported(cs.constants)) => IsNoChunk(read_chunk(file))
    /\ (pc \notin {"start", "compiled"} /\ Unsupported(cs.constants))
          => /\ pc = "done"
             /\ vm = NoVM
             /\ steps = 0
             /\ exit_status.run \notin {<< >>, <<0>>}

C8_Witness ==
    /\ pc = "done"
    /\ Unsupported(cs.constants)
    /\ Len(cs.constants) > 1
    /\ ~Unsupported(<<cs.constants[1]>>)
    /\ exit_status.run = <<1>>

\* C9: in a compiled chunk the target of every OP_JUMP and OP_JUMP_IF_FALSE
\* (operand end + offset) is within [0, code_count] and the target of every
\* OP_LOOP (operand end - offset) is within [0, offset of that OP_LOOP].
C9_JumpTargetsInRange ==
    pc = "compiled" =>
        \A p \in instruction_offsets(cs.code) :
            LET op     == At(cs.code, p)
                end    == p + 3
            IN  /\ op \in {OpCode.OP_JUMP, OpCode.OP_JUMP_IF_FALSE} =>
                      /\ 0 <= end + jump_operand(cs.code, p)
                      /\ end + jump_operand(cs.code, p) <= Len(cs.code)
                /\ op = OpCode.OP_LOOP =>
                      /\ 0 <= end - jump_operand(cs.code, p)
                      /\ end - jump_operand(cs.code, p) <= p

\* C10: in a compiled chunk the operand of every OP_LOAD_CONST is smaller than
\* the number of constants, and the operand of every OP_LOAD_VAR and
\* OP_STORE_VAR is smaller than the number of symbols of the symbol table.
C10_OperandsInRange ==
    pc = "compiled" =>
        \A p \in instruction_offsets(cs.code) :
            LET op == At(cs.code, p)
            IN  /\ op = OpCode.OP_LOAD_CONST => At(cs.code, p + 1) < Len(cs.constants)
                /\ op \in {OpCode.OP_LOAD_VAR, OpCode.OP_STORE_VAR} =>
                      At(cs.code, p + 1) < Len(cs.symtab)

\* more constants and more symbols than an operand byte can number
C10_Witness ==
    /\ pc = "compiled"
    /\ Len(cs.constants) > Pow2(8)
    /\ Len(cs.symtab) > Pow2(8)
    /\ \E p \in instruction_offsets(cs.code) : At(cs.code, p) = OpCode.OP_STORE_VAR

\* the machine is about to execute `instruction` and both operands are on the stack
AtBinary(instruction) ==
    /\ pc = "running"
    /\ vm.ip >= 0 /\ vm.ip < Len(vm.chunk.code)
    /\ At(vm.chunk.code, vm.ip) = instruction
    /\ Len(vm.stack) >= 2

\* C11: when OP_EQ executes with the same value v as both operands, whatever
\* the tag of v, the run goes on and the boolean true replaces the operands.
C11_EqualOperandsGiveTrue ==
    (AtBinary(OpCode.OP_EQ) /\ Top(vm) = Second(vm))
        => LET next == vm_step(vm, operand_order)
           IN  /\ next.state = "running"
               /\ Len(next.stack) = Len(vm.stack) - 1
               /\ Top(next) = BooleanValue(TRUE)

JustExecuted(instruction) ==
    /\ pc \in {"running", "done"}
    /\ steps > 0
    /\ vm.ip >= 1 /\ vm.ip <= Len(vm.chunk.code)
    /\ At(vm.chunk.code, vm.ip - 1) = instruction

PrintNEqualsPlusSeven == Block(<<PrintCall(BinaryOp("+", NEquals, Seven))>>)

\* C13: when OP_ADD joins a string and a number, boolean, null or array, the
\* text it uses for that operand is the text OP_PRINT writes for the same
\* value; and print("n=" + 7); writes n= followed by what print(7); writes.
C13_AddCoercesAsPrint ==
    /\ (AtBinary(OpCode.OP_ADD) /\ IsString(Second(vm)) /\ ~IsString(Top(vm)))
         => Top(vm_step(vm, operand_order))
               = StringValue(Second(vm).string_value \o print_text(Top(vm)))
    /\ (AtBinary(OpCode.OP_ADD) /\ ~IsString(Second(vm)) /\ IsString(Top(vm)))
         => Top(vm_step(vm, operand_order))
               = StringValue(print_text(Second(vm)) \o Top(vm).string_value)
    /\ (pc = "done" /\ ast = PrintNEqualsPlusSeven)
         => vm.stdout = <<NEquals.value \o print_text(atof(Seven.value))>>

\* the diagnostics of the compiler for a construct it has no code for
SemanticErrors ==
    {"Unsupported binary operator", "Unknown unary op",
     "Switch/case code generation not implemented"}

HasSemanticError(state) ==
    \E i \in 1..Len(state.errors) : state.errors[i] \in SemanticErrors

\* C14: when the compiler has met an operator it has no opcode for, or a
\* switch statement, the compile command exits with a non-zero status and
\* has written no bytecode file.
C14_SemanticErrorsFailCompile ==
    (exit_status.compile # << >> /\ HasSemanticError(cs))
        => exit_status.compile # <<0>> /\ file = << >>

\* the global slots hold what the static storage of a new process holds
FreshGlobals(m) == \A k \in 0..(Pow2(8) - 1) : load_global(m, k) = ZeroSlot

HasInstruction(code, instruction) ==
    \E p \in instruction_offsets(code) : At(code, p) = instruction

\* C15: a machine starts with fresh global slots, whatever the machines
\* created before it in the same process have stored; and a machine whose
\* code has no OP_STORE_VAR never finds a stored value in a slot.
C15_GlobalsBelongToOneVM ==
    /\ (pc = "running" /\ steps = 0) => FreshGlobals(vm)
    /\ (pc = "running" /\ ~HasInstruction(vm.chunk.code, OpCode.OP_STORE_VAR))
          => FreshGlobals(vm)

\* the program with every import replaced by the statements of the unit it
\* names (by nothing when the file is missing or rejected)
RECURSIVE Inline(_)
Inline(node) ==
    CASE node.type = "AST_IMPORT" ->
            IF node.import_path \in DOMAIN SourceFiles
                  /\ SourceFiles[node.import_path].type # "NULL"
            THEN Inline(SourceFiles[node.import_path])
            ELSE Block(<< >>)
      [] node.type = "AST_BLOCK" ->
            Block([i \in 1..Len(node.statements) |-> Inline(node.statements[i])])
      [] node.type = "AST_IF_STATEMENT" ->
            IfStatement(node.condition, Inline(node.body), Inline(node.else_body))
      [] node.type = "AST_WHILE_LOOP" -> WhileLoop(node.condition, Inline(node.body))
      [] OTHER -> node

HasSymbol(table, name) == \E i \in 1..Len(table) : table[i].name = name

\* the entries are numbered 0..count-1 in table order, no name twice, and a
\* call returns the index of the entry of a name that is there, changing
\* nothing, or appends the entry of a new name with the next index
SymbolTableDense ==
    LET table == cs.symtab
    IN  /\ \A i \in 1..Len(table) : table[i].index = i - 1
        /\ \A i \in 1..Len(table) : \A j \in 1..Len(table) :
               table[i].name = table[j].name => i = j
        /\ \A name \in SymbolNames : \A isFunction \in BOOLEAN :
               LET r == symbol_table_get_or_add(table, name, isFunction)
               IN  IF HasSymbol(table, name)
                   THEN /\ r.table = table
                        /\ r.index \in 0..(Len(table) - 1)
                        /\ At(table, r.index).name = name
                   ELSE /\ Len(r.table) = Len(table) + 1
                        /\ SubSeq(r.table, 1, Len(table)) = table
                        /\ r.index = Len(table)
                        /\ At(r.table, r.index).name = name

\* C17: on one symbol table, through calls of symbol_table_get_or_add and
\* compilations of imported units, the indices of the entries are always
\* exactly 0..count-1 in first-seen order, a name seen before gets its first
\* index again, and no step removes or renumbers an entry.
C17_SymbolIndicesDense ==
    /\ []SymbolTableDense
    /\ [][SubSeq(cs'.symtab, 1, Len(cs.symtab)) = cs.symtab]_vars

\* three names, one of them asked for again, an imported unit compiled
C17_Witness ==
    /\ Len(cs.symtab) = Cardinality(SymbolNames)
    /\ steps > Len(cs.symtab)
    /\ Len(cs.code) > 0
    /\ cs.symtab[1].name # <<"x">>
    /\ pc = "start"

\* the position where the next token starts: whitespace and comments skipped
TokenStart == lexer_skip_whitespace_and_comments(lexer).position

\* the length of the longest run of letters, digits and underscores of the
\* source from position start
WordLength(source, start) ==
    CHOOSE n \in 0..(Len(source) - start) :
        /\ \A k \in 1..n : isalnum(source[start + k]) \/ source[start + k] = "_"
        /\ start + n < Len(source)
              => ~(isalnum(source[start + n + 1]) \/ source[start + n + 1] = "_")

\* C18: when the next token starts with a letter or an underscore,
\* lexer_next_token returns the whole word as the token's value, with type
\* BOOLEAN for true and false, NULL for null, KEYWORD for the other words of
\* the keyword list and IDENTIFIER for every other word.
C18_WordsClassified ==
    (~Tokenized /\ TokenStart < Len(lexer.source)
        /\ (isalpha(At(lexer.source, TokenStart)) \/ At(lexer.source, TokenStart) = "_"))
    => LET word  == SubSeq(lexer.source, TokenStart + 1,
                           TokenStart + WordLength(lexer.source, TokenStart))
           token == lexer_next_token(lexer).token
       IN  /\ token.value = word
           /\ token.type =
                 CASE word \in {<<"t", "r", "u", "e">>, <<"f", "a", "l", "s", "e">>} ->
                          "TOKEN_BOOLEAN"
                   [] word = <<"n", "u", "l", "l">> -> "TOKEN_NULL"
                   [] word \in {<<"i", "f">>, <<"e", "l", "s", "e">>,
                                <<"w", "h", "i", "l", "e">>, <<"f", "o", "r">>,
                                <<"r", "e", "t", "u", "r", "n">>, <<"b", "r", "e", "a", "k">>,
                                <<"c", "o", "n", "t", "i", "n", "u", "e">>,
                                <<"f", "u", "n", "c", "t", "i", "o", "n">>,
                                <<"v", "a", "r">>, <<"c", "o", "n", "s", "t">>,
                                <<"l", "e", "t">>} -> "TOKEN_KEYWORD"
                   [] OTHER -> "TOKEN_IDENTIFIER"

\* "null if" has been tokenized: NULL, KEYWORD, EOF
C18_Witness ==
    /\ Tokenized
    /\ Len(tokens) = 3
    /\ tokens[1].type = "TOKEN_NULL" /\ tokens[1].value = <<"n", "u", "l", "l">>
    /\ tokens[2].type = "TOKEN_KEYWORD" /\ tokens[2].value = <<"i", "f">>

\* the index after the block comment that opens at index i: after the first
\* "*/" that follows the opening "/*", or after the end when there is none
BlockCommentEnd(source, i) ==
    LET closers == {k \in (i + 2)..(Len(source) - 1) :
                        source[k] = "*" /\ source[k + 1] = "/"}
    IN  IF closers = {} THEN Len(source) + 1
        ELSE (CHOOSE k \in closers : \A c \in closers : k <= c) + 2

\* the index of the newline that ends the line comment opening at index i, or
\* the index after the end
LineCommentEnd(source, i) ==
    LET newlines == {k \in i..Len(source) : source[k] = "\n"}
    IN  IF newlines = {} THEN Len(source) + 1
        ELSE CHOOSE k \in newlines : \A c \in newlines : k <= c

\* the source from index i on with each comment replaced by one space; a "//"
\* or "/*" between the quotes of a string literal opens no comment
RECURSIVE StripComments(_, _, _)
StripComments(source, i, inString) ==
    IF i > Len(source) THEN << >>
    ELSE IF inString
    THEN <<source[i]>> \o StripComments(source, i + 1, source[i] # "\"")
    ELSE IF source[i] = "/" /\ i < Len(source) /\ source[i + 1] = "/"
    THEN <<" ">> \o StripComments(source, LineCommentEnd(source, i), FALSE)
    ELSE IF source[i] = "/" /\ i < Len(source) /\ source[i + 1] = "*"
    THEN <<" ">> \o StripComments(source, BlockCommentEnd(source, i), FALSE)
    ELSE <<source[i]>> \o StripComments(source, i + 1, source[i] = "\"")

HasBackslash(source) == \E i \in 1..Len(source) : source[i] = "\\"

\* C19: the tokens (type and value) of a source are the tokens of the source
\* with each comment replaced by a space; TOKEN_EOF is returned only when the
\* whole source has been read, once, as the last token, after at most one
\* token per character.  (Sources without string escapes.)
C19_CommentsProduceNoTokens ==
    ~HasBackslash(lexer.source)
    => /\ \A i \in 1..Len(tokens) :
              tokens[i].type = "TOKEN_EOF"
                  => i = Len(tokens) /\ lexer.position = Len(lexer.source)
       /\ Len(tokens) <= Len(lexer.source) + 1
       /\ Tokenized
              => [i \in 1..Len(tokens) |->
                      [type |-> tokens[i].type, value |-> tokens[i].value]]
                   = Tokenize(StripComments(lexer.source, 1, FALSE))

\* a/**/a has been tokenized: two identifiers and TOKEN_EOF
C19_Witness ==
    /\ Tokenized
    /\ Len(tokens) = 3
    /\ tokens[1].type = "TOKEN_IDENTIFIER" /\ tokens[2].type = "TOKEN_IDENTIFIER"
    /\ lexer.source # StripComments(lexer.source, 1, FALSE)
    /\ \E i \in 1..Len(lexer.source) : lexer.source[i] = "*"

\* the number of backslashes that stand immediately before index k, counted
\* back no further than the character after the opening quote at index q
BackslashesBefore(source, q, k) ==
    CHOOSE n \in 0..(k - q - 1) :
        /\ \A j \in 1..n : source[k - j] = "\\"
        /\ n < k - q - 1 => source[k - n - 1] # "\\"

\* the text between the quotes with \n, \t, \\ and \" decoded; NoValue when it
\* has another escape
RECURSIVE DecodeEscapes(_, _, _)
DecodeEscapes(body, i, decoded) ==
    IF i > Len(body) THEN decoded
    ELSE IF body[i] # "\\" THEN DecodeEscapes(body, i + 1, Append(decoded, body[i]))
    ELSE IF i = Len(body) \/ body[i + 1] \notin {"n", "t", "\\", "\""} THEN NoValue
    ELSE DecodeEscapes(body, i + 2,
            Append(decoded, CASE body[i + 1] = "n" -> "\n"
                              [] body[i + 1] = "t" -> "\t"
                              [] OTHER -> body[i + 1]))

\* C20: when the next token starts with a double quote, lexer_next_token
\* returns a STRING token whose value is the text up to the closing quote (the
\* first quote not escaped by a backslash) with the four escapes decoded, and
\* the lexer stands after that quote; it returns an ERROR token, with no
\* value, when the text has another escape or there is no closing quote.
C20_StringLiterals ==
    (~Tokenized /\ TokenStart < Len(lexer.source) /\ At(lexer.source, TokenStart) = "\"")
    => LET source  == lexer.source
           q       == TokenStart + 1
           closers == {k \in (q + 1)..Len(source) :
                          source[k] = "\"" /\ BackslashesBefore(source, q, k) % 2 = 0}
           close   == CHOOSE k \in closers : \A c \in closers : k <= c
           r       == lexer_next_token(lexer)
       IN  IF closers # {}
              /\ DecodeEscapes(SubSeq(source, q + 1, close - 1), 1, << >>) # NoValue
           THEN /\ r.token.type = "TOKEN_STRING"
                /\ r.token.value = DecodeEscapes(SubSeq(source, q + 1, close - 1), 1, << >>)
                /\ r.lexer.position = close
           ELSE /\ r.token.type = "TOKEN_ERROR"
                /\ r.token.value = NoValue

\* a literal with escapes has been read, and an invalid one after it
C20_Witness ==
    /\ Len(tokens) >= 2
    /\ tokens[1].type = "TOKEN_STRING"
    /\ tokens[1].value = <<"\"", "\n">>
    /\ tokens[Len(tokens)].type = "TOKEN_ERROR"
    /\ HasBackslash(lexer.source)

\* the operator lexemes of the language
TwoCharOperators ==
    {<<"=", "=">>, <<"!", "=">>, <<"<", "=">>, <<">", "=">>, <<"&", "&">>, <<"|", "|">>}

OneCharOperators == {<<c>> : c \in {"+", "-", "*", "/", "%", "=", "<", ">", "!"}}

\* C21: when the next token starts with the two adjacent characters of ==, !=,
\* <=, >=, && or ||, lexer_next_token returns that operator as one OPERATOR
\* token; and every OPERATOR token returned is one of these six or one of the
\* single-character operators + - * / % = < > !.
C21_OperatorLexemes ==
    /\ (/\ ~Tokenized
        /\ TokenStart + 1 < Len(lexer.source)
        /\ SubSeq(lexer.source, TokenStart + 1, TokenStart + 2) \in TwoCharOperators)
          => LET r == lexer_next_token(lexer)
             IN  /\ r.token.type = "TOKEN_OPERATOR"
                 /\ r.token.value = SubSeq(lexer.source, TokenStart + 1, TokenStart + 2)
                 /\ r.lexer.position = TokenStart + 2
    /\ \A i \in 1..Len(tokens) :
          tokens[i].type = "TOKEN_OPERATOR"
              => tokens[i].value \in TwoCharOperators \cup OneCharOperators

ZeroDivisorDiagnostics == {"VM Error: Division by zero.", "VM Error: Modulo by zero."}

\* C22: when OP_DIV or OP_MOD executes with two numbers of which the divisor
\* is zero, vm_run returns a non-zero status at that instruction with the
\* operands popped, nothing pushed and nothing printed; and once the zero
\* divisor has been reported the run is over with a non-zero exit status,
\* its output being what was printed before the instruction.
C22_ZeroDivisorEndsRun ==
    /\ ((AtBinary(OpCode.OP_DIV) \/ AtBinary(OpCode.OP_MOD))
           /\ IsNumber(Top(vm)) /\ IsNumber(Second(vm)) /\ Top(vm).num = 0)
         => LET next == vm_step(vm, operand_order)
            IN  /\ next.state = "returned"
                /\ next.status # 0
                /\ next.stack = SubSeq(vm.stack, 1, Len(vm.stack) - 2)
                /\ next.stdout = vm.stdout
                /\ next.ip = vm.ip + 1
    /\ (\E d \in ZeroDivisorDiagnostics : HasDiagnostic(vm, d))
         => /\ pc = "done"
            /\ vm.state = "returned"
            /\ exit_status.run \notin {<< >>, <<0>>}
            /\ vm.stdout = <<print_text(NumberValue(1))>>

\* 7 % 0 has stopped the run after the first print
C22_Witness ==
    /\ pc = "done"
    /\ HasDiagnostic(vm, "VM Error: Modulo by zero.")
    /\ JustExecuted(OpCode.OP_MOD)
    /\ vm.chunk.constants[2] = NumberValue(7)
    /\ vm.stdout # << >>

\* the truthiness rule of the language
truthiness(value) ==
    CASE value.type = "RUNTIME_VALUE_BOOLEAN" -> value.boolean_value
      [] value.type = "RUNTIME_VALUE_NUMBER"  -> value.num # 0
      [] value.type = "RUNTIME_VALUE_STRING"  -> value.string_value # << >>
      [] value.type = "RUNTIME_VALUE_NULL"    -> FALSE
      [] OTHER -> TRUE

\* the machine is about to execute `instruction` and its operand is on the stack
AtUnary(instruction) ==
    /\ pc = "running"
    /\ vm.ip >= 0 /\ vm.ip < Len(vm.chunk.code)
    /\ At(vm.chunk.code, vm.ip) = instruction
    /\ Len(vm.stack) >= 1

\* C23: OP_JUMP_IF_FALSE with a non-zero offset pops the condition and falls
\* through to the next instruction exactly when the condition is truthy
\* (it jumps exactly when it is falsy); OP_NOT replaces its operand by the
\* boolean negation of the operand's truthiness.
C23_ConditionsFollowTruthiness ==
    /\ (AtUnary(OpCode.OP_JUMP_IF_FALSE) /\ jump_operand(vm.chunk.code, vm.ip) # 0)
         => LET next == vm_step(vm, operand_order)
            IN  /\ next.stack = SubSeq(vm.stack, 1, Len(vm.stack) - 1)
                /\ truthiness(Top(vm)) <=> next.ip = vm.ip + 3
    /\ AtUnary(OpCode.OP_NOT)
         => LET next == vm_step(vm, operand_order)
            IN  next.stack = Append(SubSeq(vm.stack, 1, Len(vm.stack) - 1),
                                    BooleanValue(~truthiness(Top(vm))))

\* the value the language gives an element expression: a literal's constant,
\* the array of the values of an array literal, the value assigned
RECURSIVE ValueOf(_)
ValueOf(node) ==
    CASE node.type = "AST_ARRAY_LITERAL" ->
            ArrayValue([i \in 1..Len(node.elements) |-> ValueOf(node.elements[i])])
      [] node.type = "AST_ASSIGNMENT" -> ValueOf(node.value)
      [] OTHER -> literal_constant(node)

\* a runtime value without the identities of its buffers
RECURSIVE Plain(_)
Plain(v) ==
    IF v.type = "RUNTIME_VALUE_ARRAY"
    THEN ArrayValue([i \in 1..Len(v.elements) |-> Plain(v.elements[i])])
    ELSE v

\* the array literal of print(literal[i]);
IndexedLiteral(program) == program.statements[1].arguments[1].array_expr

\* the offset where the code of that literal ends
LiteralEnd(program) == Len(compile_expression(IndexedLiteral(program), EmptyState).code)

\* C24: in print(literal[i]); the code of the array literal runs to its end and
\* then the top of the stack is the array of the literal's element values, in
\* source order; and OP_GET_INDEX on an array of n elements with an integer
\* index i pushes element i when 0 <= i < n and makes vm_run return a non-zero
\* status otherwise.
C24_ArrayLiteralsAndIndexing ==
    /\ (pc = "running" /\ ast \in ArrayPrograms /\ vm.ip = LiteralEnd(ast))
          => /\ vm.stack # << >>
             /\ Plain(Top(vm)) = ValueOf(IndexedLiteral(ast))
    /\ (pc = "done" /\ ast \in ArrayPrograms)
          => vm.state = "returned" /\ vm.ip > LiteralEnd(ast)
    /\ (/\ AtBinary(OpCode.OP_GET_INDEX)
        /\ Second(vm).type = "RUNTIME_VALUE_ARRAY"
        /\ IsNumber(Top(vm)) /\ Top(vm).den = 1)
          => LET i    == Top(vm).num
                 arr  == Second(vm)
                 rest == SubSeq(vm.stack, 1, Len(vm.stack) - 2)
                 next == vm_step(vm, operand_order)
             IN  IF 0 <= i /\ i < Len(arr.elements)
                 THEN next.state = "running" /\ next.stack = Append(rest, arr.elements[i + 1])
                 ELSE next.state = "returned" /\ next.status # 0

\* the lines a statement prints under the rules of the language: print writes
\* its argument, an if statement runs its body when the condition is truthy
\* and its else part (if any) otherwise, a block runs its statements in order
RECURSIVE Output(_)
Output(node) ==
    CASE node.type = "NULL" -> << >>
      [] node.type = "AST_BLOCK" ->
            IF node.statements = << >> THEN << >>
            ELSE Output(Head(node.statements))
                    \o Output(Block(Tail(node.statements)))
      [] node.type = "AST_IF_STATEMENT" ->
            IF truthiness(ValueOf(node.condition))
            THEN Output(node.body) ELSE Output(node.else_body)
      [] node.type = "AST_FUNCTION_CALL" -> <<print_text(ValueOf(node.arguments[1]))>>
      [] OTHER -> << >>

\* C25: the run of  if (c) A else B; print(7);  (no else, an else, an else-if
\* chain) ends with status 0 and has printed what exactly one branch prints -
\* A when c is truthy, B or nothing when c is falsy - followed by the line of
\* the statement after the if; and control is always at an instruction of
\* the chunk.
C25_IfRunsOneBranch ==
    /\ (pc = "done" /\ ast \in IfPrograms)
          => /\ vm.state = "returned"
             /\ vm.status = 0
             /\ vm.stdout = Output(ast)
    /\ (pc = "running" /\ ast \in IfPrograms)
          => vm.ip \in instruction_offsets(vm.chunk.code)

\* the lines print(k); ... print(k + n - 1); write, counting up or down
RECURSIVE Count(_, _, _)
Count(k, n, step) ==
    IF n = 0 THEN << >>
    ELSE <<print_text(NumberValue(k))>> \o Count(k + step, n - 1, step)

\* what a loop program prints when the body runs once per truthy evaluation
\* of the condition and the statement after the loop runs afterwards
LoopOutput(program) ==
    LET seven == <<print_text(atof(Seven.value))>>
    IN  IF \E k \in 0..MaxIterations : program = WhileCount(k)
        THEN Count(atof(program.statements[1].initial_value.value).num,
                   atof(program.statements[1].initial_value.value).num, 0 - 1) \o seven
        ELSE IF \E k \in 0..MaxIterations : program = ForCount(k)
        THEN Count(0, atof(program.statements[1].condition.right.value).num, 1) \o seven
        ELSE IF truthiness(ValueOf(program.statements[1].initial_value))
        THEN <<print_text(NumberValue(1))>> \o seven
        ELSE seven

\* the loop statement of a loop program, the offset of the first instruction
\* of its condition and the offset after its OP_LOOP operand
LoopIndex(program) == IF program.statements[1].type = "AST_VARIABLE_DECL" THEN 2 ELSE 1

LoopStart(program) ==
    LET loop == program.statements[LoopIndex(program)]
    IN  IF loop.type = "AST_FOR_LOOP"
        THEN Len(compile_node(loop.initializer, EmptyState).code)
        ELSE stmt_bounds[LoopIndex(program)]

LoopEnd(program) == stmt_bounds[LoopIndex(program) + 1]

AtInstruction(instruction) ==
    /\ pc = "running"
    /\ vm.ip >= 0 /\ vm.ip < Len(vm.chunk.code)
    /\ At(vm.chunk.code, vm.ip) = instruction

\* C26: in the run of a while or for loop, OP_LOOP transfers control to the
\* first instruction of the loop condition; OP_JUMP_IF_FALSE on a falsy
\* condition transfers control to the first instruction after the OP_LOOP
\* operand; and a loop whose condition is truthy k times has run its body k
\* times when the run ends, with status 0, after the following statement.
C26_LoopsIterate ==
    /\ (AtInstruction(OpCode.OP_LOOP) /\ ast \in LoopPrograms)
          => vm_step(vm, operand_order).ip = LoopStart(ast)
    /\ (/\ AtInstruction(OpCode.OP_JUMP_IF_FALSE)
        /\ ast \in LoopPrograms
        /\ ~truthiness(Top(vm)))
          => vm_step(vm, operand_order).ip = LoopEnd(ast)
    /\ (pc = "done" /\ ast \in LoopPrograms)
          => /\ vm.state = "returned"
             /\ vm.status = 0
             /\ vm.stdout = LoopOutput(ast)

\* the opcodes of enum OpCode named after the two logical operators
LogicalOpcodes == [sym \in {"&&", "||"} |-> IF sym = "&&" THEN OpCode.OP_AND ELSE OpCode.OP_OR]

\* the programs  a && b;  and  a || b;
LogicalPrograms ==
    {Block(<<BinaryOp(op, p[1], p[2])>>) : op \in DOMAIN LogicalOpcodes, p \in OperandPairs}

\* C27: the code compiled for a && b or a || b is the code of a, the code of
\* b, and then the operator's opcode, and when that code has run one value,
\* the result, is on the stack.
C27_LogicalOperators ==
    (pc # "start" /\ ast \in LogicalPrograms) =>
        LET e        == ast.statements[1]
            operands == compile_expression(e.right, compile_expression(e.left, EmptyState))
        IN  /\ cs.code = operands.code \o <<LogicalOpcodes[e.op_symbol], OpCode.OP_POP, OpCode.OP_EOF>>
            /\ (pc = "running" /\ vm.ip = expression_end(ast, stmt_bounds, 1))
                  => Len(vm.stack) = 1

\* the offsets of the OP_LOAD_CONST instructions of the code, in code order:
\* the k-th one was emitted by the k-th call of emit_constant
LoadConstOffsets(code) ==
    LET d == Disassemble(code, 0, Len(code))
        IsLoad(p) == At(code, p) = OpCode.OP_LOAD_CONST
    IN  SelectSeq(d.at, IsLoad)

\* C28: in a compiled chunk the operand of the k-th OP_LOAD_CONST designates
\* a constant equal to the k-th constant appended, the value of its literal,
\* however many literals the program has; print of a literal writes that
\* literal.
C28_LoadConstDesignatesItsLiteral ==
    /\ pc = "compiled" =>
          LET loads == LoadConstOffsets(cs.code)
          IN  /\ Len(loads) = Len(cs.constants)
              /\ \A k \in 1..Len(loads) :
                    LET operand == At(cs.code, loads[k] + 1)
                    IN  /\ operand < Len(cs.constants)
                        /\ cs.constants[operand + 1] = cs.constants[k]
    /\ (pc = "done" /\ ast = ManyLiterals)
          => vm.stdout = <<print_text(atof(Seven.value))>>

\* C29: a symbol table never has more than 256 symbols, and no two distinct
\* names of a compiled program's table get the same operand byte.
C29_SymbolsFitOperand ==
    /\ Len(cs.symtab) <= Pow2(8)
    /\ pc = "compiled" =>
          \A i \in 1..Len(cs.symtab) : \A j \in 1..Len(cs.symtab) :
              cs.symtab[i].name # cs.symtab[j].name
                  => U8(cs.symtab[i].index) # U8(cs.symtab[j].index)

\* C30: the operand bytes of a compiled loop's OP_LOOP and OP_JUMP_IF_FALSE,
\* read high byte first, are the distances the compiler computed (from the
\* operand's end back to the loop start, forward to the loop end), whatever
\* the length of the body; and the machine's OP_JUMP, OP_JUMP_IF_FALSE and
\* OP_LOOP move ip by the operand so read.
C30_JumpOperandsDecode ==
    /\ (pc = "compiled" /\ ast \in LoopPrograms \cup {LongLoop}) =>
          LET loop == LoopEnd(ast) - 3
              test == CHOOSE p \in instruction_offsets(cs.code) :
                          /\ p >= LoopStart(ast)
                          /\ At(cs.code, p) = OpCode.OP_JUMP_IF_FALSE
                          /\ \A q \in instruction_offsets(cs.code) :
                                (q >= LoopStart(ast) /\ At(cs.code, q) = OpCode.OP_JUMP_IF_FALSE)
                                    => p <= q
          IN  /\ At(cs.code, loop) = OpCode.OP_LOOP
              /\ jump_operand(cs.code, loop) = (loop + 3) - LoopStart(ast)
              /\ jump_operand(cs.code, test) = LoopEnd(ast) - (test + 3)
    /\ AtInstruction(OpCode.OP_JUMP)
          => vm_step(vm, operand_order).ip = (vm.ip + 3) + jump_operand(vm.chunk.code, vm.ip)
    /\ AtInstruction(OpCode.OP_LOOP)
          => vm_step(vm, operand_order).ip = (vm.ip + 3) - jump_operand(vm.chunk.code, vm.ip)
    /\ AtInstruction(OpCode.OP_JUMP_IF_FALSE)
          => vm_step(vm, operand_order).ip \in
                {vm.ip + 3, (vm.ip + 3) + jump_operand(vm.chunk.code, vm.ip)}

\* the decimal points of a lexeme
Points(value) == Cardinality({i \in 1..Len(value) : value[i] = "."})

\* C31: the value of every NUMBER token returned is a digit followed by digits
\* and at most one decimal point: the token ends before a second point.
C31_NumberLiterals ==
    \A i \in 1..Len(tokens) :
        tokens[i].type = "TOKEN_NUMBER"
            => /\ IsDigit(tokens[i].value[1])
               /\ \A j \in 1..Len(tokens[i].value) :
                     IsDigit(tokens[i].value[j]) \/ tokens[i].value[j] = "."
               /\ Points(tokens[i].value) <= 1

\* the punctuation of the language
Punctuation == {"(", ")", "{", "}", "[", "]", ",", ";", "."}

\* the character c, followed by d, starts an identifier, a number, a string,
\* an operator or a punctuation token
StartsToken(c, d) ==
    \/ isalpha(c) \/ c = "_" \/ IsDigit(c) \/ c = "\""
    \/ <<c>> \in OneCharOperators
    \/ <<c, d>> \in TwoCharOperators
    \/ c \in Punctuation

\* C32: when the next token starts at a character that starts no identifier,
\* number, string, operator or punctuation (a lone & or | included),
\* lexer_next_token returns an ERROR token.
C32_UnknownCharacters ==
    (~Tokenized /\ TokenStart < Len(lexer.source))
        => LET c == At(lexer.source, TokenStart)
               d == IF TokenStart + 1 < Len(lexer.source)
                    THEN At(lexer.source, TokenStart + 1) ELSE NUL
           IN  ~StartsToken(c, d) => lexer_next_token(lexer).token.type = "TOKEN_ERROR"

\* the parser is at the start of a statement introduced by `keyword`
AtKeyword(words) ==
    /\ pc = "parsing"
    /\ parser.current_token.type = "TOKEN_KEYWORD"
    /\ parser.current_token.value \in words

\* C33: at a statement introduced by var, let or const, parse_statement is
\* the declaration production: it returns what parse_variable_declaration
\* returns there, a variable-declaration node when the declaration is well
\* formed.
C33_DeclarationKeywords ==
    AtKeyword(DeclarationKeywords) =>
        /\ parse_statement(parser) = parse_variable_declaration(parser, FALSE)
        /\ parse_statement(parser).node.type \in {"NULL", "AST_VARIABLE_DECL"}

\* the nodes a node holds
Children(node) ==
    CASE node.type = "AST_UNARY_OP" -> <<node.operand>>
      [] node.type = "AST_BINARY_OP" -> <<node.left, node.right>>
      [] node.type = "AST_ASSIGNMENT" -> <<node.value>>
      [] node.type = "AST_VARIABLE_DECL" -> <<node.initial_value>>
      [] node.type = "AST_FUNCTION_CALL" -> node.arguments
      [] node.type = "AST_ARRAY_LITERAL" -> node.elements
      [] node.type = "AST_INDEX_ACCESS" -> <<node.array_expr, node.index_expr>>
      [] node.type = "AST_IF_STATEMENT" -> <<node.condition, node.body, node.else_body>>
      [] node.type = "AST_WHILE_LOOP" -> <<node.condition, node.body>>
      [] node.type = "AST_FOR_LOOP" ->
            <<node.initializer, node.condition, node.increment, node.body>>
      [] node.type = "AST_FUNCTION_DEF" -> <<node.body>>
      [] node.type = "AST_BLOCK" -> node.statements
      [] OTHER -> << >>

\* some binary operation of the tree has an assignment as an operand
RECURSIVE AssignmentOperand(_)
AssignmentOperand(node) ==
    \/ /\ node.type = "AST_BINARY_OP"
       /\ "AST_ASSIGNMENT" \in {node.left.type, node.right.type}
    \/ \E i \in 1..Len(Children(node)) : AssignmentOperand(Children(node)[i])

Parenthesized(source) == \E i \in 1..Len(source) : source[i] = "("

\* C34: assignment binds weaker than every binary operator and its left-hand
\* side is a variable: in the tree parsed from a source without parentheses
\* no binary operation has an assignment as an operand (1 + x = 2 is not
\* parsed as 1 + (x = 2)).
C34_AssignmentIsLowest ==
    (pc \in {"parsing", "parsed"} /\ ~Parenthesized(lexer.source))
        => ~AssignmentOperand(ast)

\* C35: while vm_run runs a chunk compile_ast produced, the opcode it is
\* about to fetch is at an instruction boundary inside the code: no jump has
\* landed in an operand or outside [0, code_count), and the run has not
\* gone past the final OP_EOF.
C35_FetchAtInstructionBoundary ==
    (pc = "running" /\ vm.state = "running")
        => /\ 0 <= vm.ip /\ vm.ip < Len(vm.chunk.code)
           /\ vm.ip \in instruction_offsets(vm.chunk.code)

\* C36: whatever bytecode the machine runs, after every instruction the
\* operand stack holds between 0 and stack_capacity values: a push onto a
\* full stack stores nothing and a pop of the empty stack leaves it empty.
C36_StackDepthWithinCapacity ==
    (pc \in {"running", "done"} /\ vm.state # "undefined")
        => /\ 0 <= Len(vm.stack) /\ Len(vm.stack) <= stack_capacity
           /\ Len(vm.stack) = stack_capacity => vm_push(vm, NullValue).stack = vm.stack
           /\ vm.stack = << >> => vm_pop(vm).stack = << >>

\* the full stack was pushed onto, after the empty stack was popped
C36_Witness ==
    /\ pc = "running"
    /\ Len(vm.stack) = stack_capacity
    /\ HasDiagnostic(vm, "VM Error: Stack overflow.")
    /\ HasDiagnostic(vm, "VM Error: Stack underflow.")

\* the tree holds a while or a for statement
RECURSIVE HasLoop(_)
HasLoop(node) ==
    \/ node.type \in {"AST_WHILE_LOOP", "AST_FOR_LOOP"}
    \/ \E i \in 1..Len(Children(node)) : HasLoop(Children(node)[i])

\* C37: the run of a program without while and for statements terminates:
\* every instruction leaves the instruction pointer further on, inside the
\* code, and the run returns after at most as many instructions as the chunk
\* has bytes.
C37_LoopFreeRunsTerminate ==
    (pc = "running" /\ ~HasLoop(ast))
        => LET next == vm_step(vm, operand_order)
           IN  /\ next.ip > vm.ip
               /\ next.state = "running" => next.ip < Len(vm.chunk.code)
               /\ steps < Len(vm.chunk.code)

\* a call of lexer_next_token in the current state keeps to the source: a
\* token other than EOF costs at least one character, the position never
\* passes the terminating NUL, and after an EOF the next call is an EOF at
\* the same position
TokenCallAdvances ==
    LET r     == lexer_next_token(lexer)
        again == lexer_next_token(r.lexer)
    IN  /\ lexer.position <= Len(lexer.source)
        /\ r.lexer.position <= Len(lexer.source)
        /\ r.token.type # "TOKEN_EOF" => r.lexer.position >= lexer.position + 1
        /\ r.token.type = "TOKEN_EOF"
              => /\ again.token.type = "TOKEN_EOF"
                 /\ again.lexer.position = r.lexer.position
        /\ Tokenized => r.token.type = "TOKEN_EOF" /\ r.lexer.position = lexer.position
        /\ Len(tokens) <= lexer.position + 1

\* C38: tokenizing a finite source terminates: every call of lexer_next_token
\* that returns a token other than EOF moves the position forward by at least
\* one character and never beyond the terminating NUL, every call after an
\* EOF returns EOF without moving, and the EOF token is eventually returned.
C38_TokenizingTerminates == []TokenCallAdvances /\ <>Tokenized

\* a source tokenized to its end, an error token and two more tokens before
\* the EOF
C38_Witness ==
    /\ Tokenized
    /\ Len(tokens) >= 4
    /\ lexer.position = Len(lexer.source)
    /\ \E i \in 1..Len(tokens) : tokens[i].type = "TOKEN_ERROR"

\* the tree declares a variable without an initializer
RECURSIVE HasBareDeclaration(_)
HasBareDeclaration(node) ==
    \/ node.type = "AST_VARIABLE_DECL" /\ node.initial_value = NullNode
    \/ \E i \in 1..Len(Children(node)) : HasBareDeclaration(Children(node)[i])

====
